---------------------------- MODULE Spec2Model ----------------------------
(***************************************************************************)
(* A model of the estimation debugger of qiskit-ibm-runtime: the Debugger  *)
(* (compare, to_clifford), the legacy Debugger (run), the Ratio figure of  *)
(* merit and the Clifford pass.                                            *)
(*                                                                         *)
(* Conventions.  Python's None is the string "None".  An expectation value *)
(* is an integer number of halves; a quotient of two of them is a reduced  *)
(* fraction <<n, d>> with d > 0.  An array of expectation values is a      *)
(* sequence of length >= 1, a result set a sequence of such arrays.  An    *)
(* RZ angle is an integer number of pi/8.  An exception is a record with   *)
(* its type, its message and the values the message mentions.              *)
(***************************************************************************)
EXTENDS Integers, Sequences, FiniteSets, TLC

VARIABLES
    cls,                \* which Debugger class the instance is of
    backend,            \* Debugger._backend
    noise_model,        \* Debugger._noise_model
    derivations,        \* the calls of NoiseModel.from_backend made so far
    pc,                 \* the position of the call in progress
    op,                 \* the method called: compare, to_clifford or run
    pubs,               \* the call's pubs, as the caller holds them
    result1,            \* compare's result1
    result2,            \* compare's result2
    default_precision,  \* compare's default_precision
    seed_simulator,     \* compare's seed_simulator
    checks,             \* the validations the call in progress has passed
    r1,                 \* compare's r1 (run's ideal_results)
    r2,                 \* compare's r2 (run's noisy_results)
    sims,               \* the estimator runs of the call in progress
    fomRet,             \* what compare or run returned
    cliffRet,           \* what to_clifford returned
    err,                \* the exception the call raised
    dag,                \* the circuit handed to ToNearestClifford.run
    passRet,            \* what ToNearestClifford.run returned or raised
    heap,               \* the objects the caller of the noise containers holds
    le,                 \* the LindbladErrors object
    ln,                 \* the LayerNoise object
    drawIn,             \* the arguments of the drawing call
    drawRet,            \* what the drawing call returned or raised
    nlr,                \* the NoiseLearnerResult object
    serviceIn,          \* the arguments of the call to the local service
    serviceRet          \* what the local service returned or raised

vars == <<cls, backend, noise_model, derivations, pc, op, pubs, result1, result2,
          default_precision, seed_simulator, checks, r1, r2, sims, fomRet,
          cliffRet, err, dag, passRet, heap, le, ln, drawIn, drawRet, nlr, serviceIn,
          serviceRet>>

debuggerVars == <<cls, backend, noise_model>>
callArgs == <<op, pubs, result1, result2, default_precision, seed_simulator>>
passVars == <<dag, passRet>>
noiseVars == <<heap, le, ln, nlr>>
drawVars == <<drawIn, drawRet>>
serviceVars == <<serviceIn, serviceRet>>

-----------------------------------------------------------------------------
(* Bounds *)

MaxPubs == 2

MaxGates == 2

MaxRuns == 2

-----------------------------------------------------------------------------
(* Arithmetic *)

Abs(x) == IF x < 0 THEN -x ELSE x

Min(a, b) == IF a <= b THEN a ELSE b

RECURSIVE GCD(_, _)
GCD(a, b) == IF b = 0 THEN a ELSE GCD(b, a % b)

\* The quotient n / d (d # 0) as a reduced fraction with a positive denominator.
Frac(n, d) ==
    LET g == GCD(Abs(n), Abs(d))
        s == IF d < 0 THEN -1 ELSE 1
    IN  <<(s * n) \div g, (s * d) \div g>>

Zero == <<0, 1>>

NoError == [type |-> "None", msg |-> "None", mentions |-> {}]

Error(type, msg, mentions) == [type |-> type, msg |-> msg, mentions |-> mentions]

-----------------------------------------------------------------------------
(* The Ratio figure of merit *)

\* np.divide(noisy_evs, ideal_evs, out=np.zeros_like(noisy_evs, dtype=float),
\* where=ideal_evs != 0): the operands broadcast against each other, and the
\* result must have the shape of out, which is the shape of noisy_evs.
DivideBroadcasts(noisy_evs, ideal_evs) ==
    Len(ideal_evs) = Len(noisy_evs) \/ Len(ideal_evs) = 1

DivideNoWhere(noisy_evs, ideal_evs) ==
    [j \in 1..Len(noisy_evs) |->
        LET d == IF Len(ideal_evs) = 1 THEN ideal_evs[1] ELSE ideal_evs[j]
        IN  IF d # 0 THEN Frac(noisy_evs[j], d) ELSE <<noisy_evs[j], 0>>]

Divide(noisy_evs, ideal_evs) ==
    [j \in 1..Len(noisy_evs) |->
        LET d == IF Len(ideal_evs) = 1 THEN ideal_evs[1] ELSE ideal_evs[j]
        IN  IF d # 0 THEN Frac(noisy_evs[j], d) ELSE Zero]

RatioCallFirstIdeal(noisy_results, ideal_results) ==
    LET n == Min(Len(noisy_results), Len(ideal_results))
        bad == {i \in 1..n : ~DivideBroadcasts(noisy_results[i], ideal_results[1])}
    IN  IF bad = {}
        THEN [ok |-> TRUE,
              val |-> [i \in 1..n |-> Divide(noisy_results[i], ideal_results[1])],
              err |-> NoError]
        ELSE [ok |-> FALSE, val |-> <<>>,
              err |-> Error("ValueError", "non-broadcastable output operand", {})]

\* Ratio.call: one entry per pair of zip(noisy_results, ideal_results); the
\* first pair np.divide refuses raises.
RatioCall(noisy_results, ideal_results) ==
    LET n == Min(Len(noisy_results), Len(ideal_results))
        bad == {i \in 1..n : ~DivideBroadcasts(noisy_results[i], ideal_results[i])}
    IN  IF bad = {}
        THEN [ok |-> TRUE,
              val |-> [i \in 1..n |-> Divide(noisy_results[i], ideal_results[i])],
              err |-> NoError]
        ELSE [ok |-> FALSE, val |-> <<>>,
              err |-> Error("ValueError", "non-broadcastable output operand", {})]


-----------------------------------------------------------------------------
(* Circuits and the Clifford passes *)

Gate(c) == [cls |-> c, angle |-> 0]

RZ(a) == [cls |-> "RZGate", angle |-> a]

SUPPORTED_GATES == {"CXGate", "CZGate", "ECRGate", "RZGate", "SXGate", "XGate"}

UnsupportedClasses == {"HGate", "Measure"}

\* RZ angles, in units of pi/8: -pi/4, pi/4, 3pi/8, pi/2, 3pi/4.
Angles == {-2, 2, 3, 4, 6}

GateAlphabet ==
    {Gate(c) : c \in (SUPPORTED_GATES \ {"RZGate"}) \cup UnsupportedClasses}
        \cup {RZ(a) : a \in Angles}

SeqsUpTo(S, n) == UNION {[1..k -> S] : k \in 0..n}

Circuits == SeqsUpTo(GateAlphabet, MaxGates)

FirstOf(S) == CHOOSE i \in S : \A j \in S : i <= j

PassError(found) ==
    Error("ValueError", "Found gate, but only gates are supported",
          {found} \cup SUPPORTED_GATES)

ToNearestCliffordSkips(d) ==
    [ok |-> TRUE, dag |-> SelectSeq(d, LAMBDA g : g.cls \in SUPPORTED_GATES),
     err |-> NoError]

\* ToNearestClifford.run: the first node that is no instance of a supported
\* class raises; otherwise the dag is returned as it came.
ToNearestCliffordRun(d) ==
    LET bad == {i \in 1..Len(d) : d[i].cls \notin SUPPORTED_GATES}
    IN  IF bad # {}
        THEN [ok |-> FALSE, dag |-> <<>>, err |-> PassError(d[FirstOf(bad)].cls)]
        ELSE [ok |-> TRUE, dag |-> d, err |-> NoError]

\* k / q rounded to the nearest integer, exact ties to the even one (q > 0).
RoundHalfEven(k, q) ==
    LET f == k \div q
        rem == k % q
    IN  IF 2 * rem < q THEN f
        ELSE IF 2 * rem > q THEN f + 1
        ELSE IF f % 2 = 0 THEN f ELSE f + 1

QuarterTurn == 4

\* ConvertISAToClifford: every RZ angle becomes the nearest multiple of pi/2,
\* the other supported gates stay, any other instruction is an error.
ConvertISAToCliffordRun(d) ==
    LET bad == {i \in 1..Len(d) : d[i].cls \notin SUPPORTED_GATES}
    IN  IF bad # {}
        THEN [ok |-> FALSE, dag |-> <<>>, err |-> PassError(d[FirstOf(bad)].cls)]
        ELSE [ok |-> TRUE,
              dag |-> [i \in 1..Len(d) |->
                         IF d[i].cls = "RZGate"
                         THEN RZ(QuarterTurn * RoundHalfEven(d[i].angle, QuarterTurn))
                         ELSE d[i]],
              err |-> NoError]

-----------------------------------------------------------------------------
(* Pubs, backends, noise models, results *)

Backends == {"fake_a", "fake_b"}

\* backend.target: the instructions a circuit may use to be ISA.
Target(b) ==
    IF b = "fake_a"
    THEN {"CXGate", "RZGate", "SXGate", "XGate", "Measure"}
    ELSE {"CXGate", "ECRGate", "RZGate", "SXGate", "XGate", "Measure"}

Pub(c, o, pv, p) ==
    [circuit |-> c, observables |-> o, parameter_values |-> pv, precision |-> p]

\* The pubs a caller passes: a Clifford one, one with an RZ off the quarter
\* turns, one with an instruction the pass does not support, one with a
\* precision that is not positive, one that is not ISA.
PubPool ==
    { Pub(<<RZ(4), Gate("CXGate")>>, "ZZ", "[]", "None"),
      Pub(<<RZ(3), Gate("XGate")>>, "XI", "[0.5]", "0.1"),
      Pub(<<Gate("XGate"), Gate("Measure")>>, "ZI", "[]", "None"),
      Pub(<<Gate("SXGate")>>, "IZ", "[]", "0.0"),
      Pub(<<Gate("HGate")>>, "YY", "[]", "0.1") }

NoNoise == [origin |-> "None", backend |-> "None", thermal_relaxation |-> FALSE]

UserNoise == [origin |-> "user", backend |-> "None", thermal_relaxation |-> TRUE]

\* NoiseModel.from_backend(backend, thermal_relaxation=tr)
FromBackend(b, tr) == [origin |-> "from_backend", backend |-> b, thermal_relaxation |-> tr]

\* Expectation values, in halves: what a noiseless and a noisy simulation
\* return, and what NoisySets and IdealSets hold.
IdealEvs == {0, 2}

NoisyEvs == {-1, 0, 1}

ObsLens == {1, 2}

Arrays(V) == UNION {[1..k -> V] : k \in ObsLens}

\* The result sets a caller passes as result1 or result2: one of each length,
\* entry i holding i, and one whose only array holds two values.
SuppliedResults ==
    {[i \in 1..k |-> <<i>>] : k \in 0..MaxPubs} \cup {<<<<1, 2>>>>}

Str(s) == [isStr |-> TRUE, str |-> s, res |-> <<>>]

Res(r) == [isStr |-> FALSE, str |-> "", res |-> r]

Sources ==
    {Str(s) : s \in {"ideal_sim", "noisy_sim", "exp", "real"}}
        \cup {Res(r) : r \in SuppliedResults}

Precisions == {"0", "0.1"}

Seeds == {"None", "42"}

-----------------------------------------------------------------------------
(* Validation *)

\* validate_estimator_pubs: a precision, when given, is greater than 0.
ValidEstimatorPub(pub) == pub.precision # "0.0"

\* validate_isa_circuits: every instruction of the circuit is in the target.
IsISA(circuit, b) == \A i \in 1..Len(circuit) : circuit[i].cls \in Target(b)

NonCliffordError ==
    Error("ValueError",
          "Given pubs contain a non-Clifford circuit. To fix, consider using the ConvertISAToClifford pass",
          {"ConvertISAToClifford"})

\* The Clifford loop of _validate_pubs on one pub: the pass may raise, and a
\* circuit the pass changes is refused.
CliffordCheck(pub) ==
    LET out == ConvertISAToCliffordRun(pub.circuit)
    IN  IF ~out.ok THEN out.err
        ELSE IF pub.circuit # out.dag THEN NonCliffordError
        ELSE NoError

ValidatePubsNoClifford(b, ps, validate_clifford) ==
    IF \E i \in 1..Len(ps) : ~ValidEstimatorPub(ps[i])
    THEN [err |-> Error("ValueError", "The precision value must be strictly greater than 0", {}),
          passed |-> {}]
    ELSE IF \E i \in 1..Len(ps) : ~IsISA(ps[i].circuit, b)
    THEN [err |-> Error("IBMInputValueError", "The instruction is not supported by the target", {}),
          passed |-> {"pubs"}]
    ELSE [err |-> NoError, passed |-> {"pubs", "isa"}]

\* _validate_pubs: which validations passed, and the exception of the first
\* one that did not.
ValidatePubs(b, ps, validate_clifford) ==
    IF \E i \in 1..Len(ps) : ~ValidEstimatorPub(ps[i])
    THEN [err |-> Error("ValueError", "The precision value must be strictly greater than 0", {}),
          passed |-> {}]
    ELSE IF \E i \in 1..Len(ps) : ~IsISA(ps[i].circuit, b)
    THEN [err |-> Error("IBMInputValueError", "The instruction is not supported by the target", {}),
          passed |-> {"pubs"}]
    ELSE IF validate_clifford
    THEN LET bad == {i \in 1..Len(ps) : CliffordCheck(ps[i]) # NoError}
         IN  IF bad # {}
             THEN [err |-> CliffordCheck(ps[FirstOf(bad)]), passed |-> {"pubs", "isa"}]
             ELSE [err |-> NoError, passed |-> {"pubs", "isa", "clifford"}]
    ELSE [err |-> NoError, passed |-> {"pubs", "isa"}]

-----------------------------------------------------------------------------
(* The simulator *)

SimulationError == Error("AerError", "Simulation failed", {})

\* The options _get_result hands to AerEstimator for a simulation tag.
GetResultOptionsAlwaysNoisy(result, nm, precision, seed) ==
    [method |-> "stabilizer", seed_simulator |-> seed,
     default_precision |-> precision, noise_model |-> nm]

GetResultOptions(result, nm, precision, seed) ==
    [method |-> "stabilizer", seed_simulator |-> seed,
     default_precision |-> precision,
     noise_model |-> IF result = "noisy_sim" THEN nm ELSE NoNoise]

\* The options of Debugger.run's two estimators: neither a seed nor a
\* default precision is set.
RunOptions(nm) ==
    [method |-> "stabilizer", seed_simulator |-> "unset",
     default_precision |-> "unset", noise_model |-> nm]

\* AerEstimator(options).run(pubs).result(): one array per pub, or a failure.
SimOutcomes(options, ps) ==
    LET V == IF options.noise_model = NoNoise THEN IdealEvs ELSE NoisyEvs
    IN  {[ok |-> TRUE, res |-> r] : r \in [1..Len(ps) -> {<<v>> : v \in V}]}
            \cup {[ok |-> FALSE, res |-> <<>>]}

SimRun(options, ps, ok) == [options |-> options, pubs |-> ps, ok |-> ok]

-----------------------------------------------------------------------------
(* The Debugger *)

\* Debugger.__init__: noise_model or NoiseModel.from_backend(backend,
\* thermal_relaxation=False).  The legacy Debugger keeps the backend only.
DebuggerInit(c, b, nm) ==
    /\ cls = c
    /\ backend = b
    /\ noise_model = IF c = "debugger" /\ nm = NoNoise THEN FromBackend(b, FALSE) ELSE nm
    /\ derivations = IF c = "debugger" /\ nm = NoNoise
                     THEN <<[backend |-> b, thermal_relaxation |-> FALSE]>>
                     ELSE <<>>

NoCall ==
    /\ op = "None"
    /\ pubs = <<>>
    /\ result1 = Str("")
    /\ result2 = Str("")
    /\ default_precision = "0"
    /\ seed_simulator = "None"
    /\ checks = {}
    /\ r1 = <<>>
    /\ r2 = <<>>
    /\ sims = <<>>
    /\ fomRet = <<>>
    /\ cliffRet = <<>>
    /\ err = NoError

NoPass == [ok |-> FALSE, dag |-> <<>>, err |-> NoError]

\* No noise container has been built.
NoContainers ==
    /\ heap = [paulis |-> [num_qubits |-> 0, paulis |-> <<>>], rates |-> <<>>,
               rates_stderr |-> [isNone |-> TRUE, val |-> <<>>],
               circuit |-> 0, qubits |-> <<>>]
    /\ le = [constructed |-> FALSE]
    /\ ln = [constructed |-> FALSE]
    /\ nlr = [constructed |-> FALSE]

\* No drawing call has been made.
NoDrawing ==
    /\ drawIn = [called |-> FALSE]
    /\ drawRet = [returned |-> FALSE]

\* No call to the local service has been made.
NoService ==
    /\ serviceIn = [called |-> FALSE]
    /\ serviceRet = [returned |-> FALSE]

Init ==
    /\ \E c \in {"debugger", "legacy"}, b \in Backends, nm \in {NoNoise, UserNoise} :
          /\ c = "legacy" => nm = NoNoise
          /\ DebuggerInit(c, b, nm)
    /\ pc = "idle"
    /\ NoCall
    /\ dag = <<>>
    /\ passRet = NoPass
    /\ NoContainers
    /\ NoDrawing
    /\ NoService

Raise(e) ==
    /\ pc' = "raised"
    /\ err' = e

\* compare is called.
CallCompare ==
    /\ pc = "idle"
    /\ cls = "debugger"
    /\ \E ps \in SeqsUpTo(PubPool, MaxPubs), s1 \in Sources, s2 \in Sources,
          p \in Precisions, seed \in Seeds :
          /\ pubs' = ps
          /\ result1' = s1
          /\ result2' = s2
          /\ default_precision' = p
          /\ seed_simulator' = seed
    /\ pc' = "cmp_sources"
    /\ op' = "compare"
    /\ UNCHANGED <<debuggerVars, derivations, checks, r1, r2, sims, fomRet, cliffRet,
                   err, passVars, noiseVars, drawVars, serviceVars>>

InvalidResult(result) ==
    Error("ValueError", "Invalid result, must be 'ideal_sim' or 'noisy_sim'.", {result})

\* compare, the loop over [result1, result2]: a string outside the list raises.
CompareSources ==
    /\ pc = "cmp_sources"
    /\ LET bad == {i \in 1..2 :
                     LET result == <<result1, result2>>[i]
                     IN  result.isStr /\ result.str \notin {"ideal_sim", "noisy_sim", "exp"}}
       IN  IF bad # {}
           THEN Raise(InvalidResult(<<result1, result2>>[FirstOf(bad)].str))
           ELSE pc' = "cmp_validate" /\ UNCHANGED err
    /\ UNCHANGED <<debuggerVars, derivations, callArgs, checks, r1, r2, sims, fomRet,
                   cliffRet, passVars, noiseVars, drawVars, serviceVars>>

\* compare: _validate_pubs(self.backend, coerced_pubs).
CompareValidate ==
    /\ pc = "cmp_validate"
    /\ LET v == ValidatePubs(backend, pubs, TRUE)
       IN  /\ checks' = v.passed
           /\ IF v.err # NoError
              THEN Raise(v.err)
              ELSE pc' = "cmp_r1" /\ UNCHANGED err
    /\ UNCHANGED <<debuggerVars, derivations, callArgs, r1, r2, sims, fomRet, cliffRet,
                   passVars, noiseVars, drawVars, serviceVars>>

CannotRetrieve == Error("ValueError", "Cannot retrieve the results.", {})

Outcome(ok, res, runs, e) == [ok |-> ok, res |-> res, runs |-> runs, err |-> e]

GetResultRetries(coerced_pubs, result, nm, precision, seed) ==
    IF ~result.isStr
    THEN {Outcome(TRUE, result.res, <<>>, NoError)}
    ELSE IF result.str \in {"ideal_sim", "noisy_sim"}
    THEN LET options == GetResultOptions(result.str, nm, precision, seed)
         IN  {Outcome(o.ok, o.res,
                      <<SimRun(options, coerced_pubs, FALSE), SimRun(options, coerced_pubs, o.ok)>>,
                      IF o.ok THEN NoError ELSE SimulationError) :
                 o \in SimOutcomes(options, coerced_pubs)}
    ELSE {Outcome(FALSE, <<>>, <<>>, CannotRetrieve)}

\* _get_result: a result set is returned as it is, a simulation tag runs one
\* estimator, any other string raises.  The set of its possible outcomes:
\* what it returns or raises, and the estimator runs it made.
GetResult(coerced_pubs, result, nm, precision, seed) ==
    IF ~result.isStr
    THEN {Outcome(TRUE, result.res, <<>>, NoError)}
    ELSE IF result.str \in {"ideal_sim", "noisy_sim"}
    THEN LET options == GetResultOptions(result.str, nm, precision, seed)
         IN  {Outcome(o.ok, o.res, <<SimRun(options, coerced_pubs, o.ok)>>,
                      IF o.ok THEN NoError ELSE SimulationError) :
                 o \in SimOutcomes(options, coerced_pubs)}
    ELSE {Outcome(FALSE, <<>>, <<>>, CannotRetrieve)}

CompareR1Rederives ==
    /\ pc = "cmp_r1"
    /\ noise_model' = FromBackend(backend, FALSE)
    /\ \E out \in GetResult(pubs, result1, noise_model', default_precision, seed_simulator) :
          /\ sims' = sims \o out.runs
          /\ IF out.ok
             THEN r1' = out.res /\ pc' = "cmp_r2" /\ UNCHANGED err
             ELSE Raise(out.err) /\ UNCHANGED r1
    /\ UNCHANGED <<cls, backend, derivations, callArgs, checks, r2, fomRet, cliffRet,
                   passVars, noiseVars, drawVars, serviceVars>>

\* compare: r1 = _get_result(coerced_pubs, result1, ...).
CompareR1 ==
    /\ pc = "cmp_r1"
    /\ \E out \in GetResult(pubs, result1, noise_model, default_precision, seed_simulator) :
          /\ sims' = sims \o out.runs
          /\ IF out.ok
             THEN r1' = out.res /\ pc' = "cmp_r2" /\ UNCHANGED err
             ELSE Raise(out.err) /\ UNCHANGED r1
    /\ UNCHANGED <<debuggerVars, derivations, callArgs, checks, r2, fomRet, cliffRet,
                   passVars, noiseVars, drawVars, serviceVars>>

\* compare: r2 = _get_result(coerced_pubs, result2, ...).
CompareR2 ==
    /\ pc = "cmp_r2"
    /\ \E out \in GetResult(pubs, result2, noise_model, default_precision, seed_simulator) :
          /\ sims' = sims \o out.runs
          /\ IF out.ok
             THEN r2' = out.res /\ pc' = "cmp_fom" /\ UNCHANGED err
             ELSE Raise(out.err) /\ UNCHANGED r2
    /\ UNCHANGED <<debuggerVars, derivations, callArgs, checks, r1, fomRet, cliffRet,
                   passVars, noiseVars, drawVars, serviceVars>>

\* compare: return fom(r1, r2), fom the Ratio figure of merit.
CompareFom ==
    /\ pc = "cmp_fom"
    /\ LET out == RatioCall(r1, r2)
       IN  IF out.ok
           THEN fomRet' = out.val /\ pc' = "returned" /\ UNCHANGED err
           ELSE Raise(out.err) /\ UNCHANGED fomRet
    /\ UNCHANGED <<debuggerVars, derivations, callArgs, checks, r1, r2, sims, cliffRet,
                   passVars, noiseVars, drawVars, serviceVars>>

\* to_clifford is called.
CallToClifford ==
    /\ pc = "idle"
    /\ cls = "debugger"
    /\ \E ps \in SeqsUpTo(PubPool, MaxPubs) : pubs' = ps
    /\ pc' = "tc_validate"
    /\ op' = "to_clifford"
    /\ UNCHANGED <<debuggerVars, derivations, result1, result2, default_precision,
                   seed_simulator, checks, r1, r2, sims, fomRet, cliffRet, err, passVars, noiseVars, drawVars, serviceVars>>

\* to_clifford: _validate_pubs(self.backend, coerced_pubs, False).
ToCliffordValidate ==
    /\ pc = "tc_validate"
    /\ LET v == ValidatePubs(backend, pubs, FALSE)
       IN  /\ checks' = v.passed
           /\ IF v.err # NoError
              THEN Raise(v.err)
              ELSE pc' = "tc_convert" /\ UNCHANGED err
    /\ UNCHANGED <<debuggerVars, derivations, callArgs, r1, r2, sims, fomRet, cliffRet,
                   passVars, noiseVars, drawVars, serviceVars>>

ToCliffordLoopDropsPrecision(ps) ==
    LET bad == {i \in 1..Len(ps) : ~ConvertISAToCliffordRun(ps[i].circuit).ok}
    IN  IF bad # {}
        THEN [ok |-> FALSE, ret |-> <<>>, pubs |-> ps,
              err |-> ConvertISAToCliffordRun(ps[FirstOf(bad)].circuit).err]
        ELSE [ok |-> TRUE,
              ret |-> [i \in 1..Len(ps) |->
                         Pub(ConvertISAToCliffordRun(ps[i].circuit).dag,
                             ps[i].observables, ps[i].parameter_values, "None")],
              pubs |-> ps,
              err |-> NoError]

\* to_clifford's loop: one new pub per pub, the circuit run through the pass;
\* the first circuit the pass refuses raises.  <<returned pubs, the caller's pubs>>.
ToCliffordLoop(ps) ==
    LET bad == {i \in 1..Len(ps) : ~ConvertISAToCliffordRun(ps[i].circuit).ok}
    IN  IF bad # {}
        THEN [ok |-> FALSE, ret |-> <<>>, pubs |-> ps,
              err |-> ConvertISAToCliffordRun(ps[FirstOf(bad)].circuit).err]
        ELSE [ok |-> TRUE,
              ret |-> [i \in 1..Len(ps) |->
                         Pub(ConvertISAToCliffordRun(ps[i].circuit).dag,
                             ps[i].observables, ps[i].parameter_values, ps[i].precision)],
              pubs |-> ps,
              err |-> NoError]

ToCliffordConvert ==
    /\ pc = "tc_convert"
    /\ LET out == ToCliffordLoop(pubs)
       IN  /\ pubs' = out.pubs
           /\ IF out.ok
              THEN cliffRet' = out.ret /\ pc' = "returned" /\ UNCHANGED err
              ELSE Raise(out.err) /\ UNCHANGED cliffRet
    /\ UNCHANGED <<debuggerVars, derivations, op, result1, result2, default_precision,
                   seed_simulator, checks, r1, r2, sims, fomRet, passVars, noiseVars, drawVars, serviceVars>>

-----------------------------------------------------------------------------
(* The legacy Debugger *)

\* Debugger.run is called.
CallRun ==
    /\ pc = "idle"
    /\ cls = "legacy"
    /\ Len(derivations) < MaxRuns
    /\ \E ps \in SeqsUpTo(PubPool, MaxPubs) : pubs' = ps
    /\ pc' = "run_validate"
    /\ op' = "run"
    /\ UNCHANGED <<debuggerVars, derivations, result1, result2, default_precision,
                   seed_simulator, checks, r1, r2, sims, fomRet, cliffRet, err, passVars, noiseVars, drawVars, serviceVars>>

\* run: validate_estimator_pubs, then validate_isa_circuits pub by pub.
RunValidate ==
    /\ pc = "run_validate"
    /\ LET v == ValidatePubs(backend, pubs, FALSE)
       IN  /\ checks' = v.passed
           /\ IF v.err # NoError
              THEN Raise(v.err)
              ELSE pc' = "run_ideal" /\ UNCHANGED err
    /\ UNCHANGED <<debuggerVars, derivations, callArgs, r1, r2, sims, fomRet, cliffRet,
                   passVars, noiseVars, drawVars, serviceVars>>

\* run: the ideal simulation, with options = {"method": "stabilizer"}.
RunIdeal ==
    /\ pc = "run_ideal"
    /\ LET options == RunOptions(NoNoise)
       IN  \E o \in SimOutcomes(options, pubs) :
              /\ sims' = Append(sims, SimRun(options, pubs, o.ok))
              /\ IF o.ok
                 THEN r1' = o.res /\ pc' = "run_noisy" /\ UNCHANGED err
                 ELSE Raise(SimulationError) /\ UNCHANGED r1
    /\ UNCHANGED <<debuggerVars, derivations, callArgs, checks, r2, fomRet, cliffRet,
                   passVars, noiseVars, drawVars, serviceVars>>

\* run: the noise model is derived from the backend, added to the options,
\* and the noisy simulation is run.
RunNoisy ==
    /\ pc = "run_noisy"
    /\ derivations' = Append(derivations, [backend |-> backend, thermal_relaxation |-> FALSE])
    /\ LET options == RunOptions(FromBackend(backend, FALSE))
       IN  \E o \in SimOutcomes(options, pubs) :
              /\ sims' = Append(sims, SimRun(options, pubs, o.ok))
              /\ IF o.ok
                 THEN r2' = o.res /\ pc' = "run_ratio" /\ UNCHANGED err
                 ELSE Raise(SimulationError) /\ UNCHANGED r2
    /\ UNCHANGED <<debuggerVars, callArgs, checks, r1, fomRet, cliffRet, passVars, noiseVars, drawVars, serviceVars>>

\* run: the ratio of the noisy results (r2) to the ideal ones (r1).
RunRatio ==
    /\ pc = "run_ratio"
    /\ LET out == RatioCall(r2, r1)
       IN  IF out.ok
           THEN fomRet' = out.val /\ pc' = "returned" /\ UNCHANGED err
           ELSE Raise(out.err) /\ UNCHANGED fomRet
    /\ UNCHANGED <<debuggerVars, derivations, callArgs, checks, r1, r2, sims, cliffRet,
                   passVars, noiseVars, drawVars, serviceVars>>

\* The call is over: the caller has its value or its exception.
Return ==
    /\ pc \in {"returned", "raised"}
    /\ pc' = "idle"
    /\ op' = "None"
    /\ pubs' = <<>>
    /\ result1' = Str("")
    /\ result2' = Str("")
    /\ default_precision' = "0"
    /\ seed_simulator' = "None"
    /\ checks' = {}
    /\ r1' = <<>>
    /\ r2' = <<>>
    /\ sims' = <<>>
    /\ fomRet' = <<>>
    /\ cliffRet' = <<>>
    /\ err' = NoError
    /\ UNCHANGED <<debuggerVars, derivations, passVars, noiseVars, drawVars, serviceVars>>

Next ==
    \/ CallCompare
    \/ CompareSources
    \/ CompareValidate
    \/ CompareR1
    \/ CompareR2
    \/ CompareFom
    \/ CallToClifford
    \/ ToCliffordValidate
    \/ ToCliffordConvert
    \/ CallRun
    \/ RunValidate
    \/ RunIdeal
    \/ RunNoisy
    \/ RunRatio
    \/ Return

Spec == Init /\ [][Next]_vars

-----------------------------------------------------------------------------
(* The figure of merit alone: Ratio on every pair of aligned result sets *)

ResultSets(V) == SeqsUpTo(Arrays(V), MaxPubs)

\* Two result sets of the same pubs: as many entries, each of the same shape.
Aligned(a, b) ==
    /\ Len(a) = Len(b)
    /\ \A i \in 1..Len(a) : Len(a[i]) = Len(b[i])

InitFom ==
    /\ DebuggerInit("debugger", "fake_a", NoNoise)
    /\ pc = "cmp_fom"
    /\ op = "compare"
    /\ pubs = <<>>
    /\ result1 = Str("")
    /\ result2 = Str("")
    /\ default_precision = "0"
    /\ seed_simulator = "None"
    /\ checks = {}
    /\ \E a \in ResultSets(NoisyEvs) :
          \E b \in {x \in ResultSets(IdealEvs) : Aligned(a, x)} :
             r1 = a /\ r2 = b
    /\ sims = <<>>
    /\ fomRet = <<>>
    /\ cliffRet = <<>>
    /\ err = NoError
    /\ dag = <<>>
    /\ passRet = NoPass
    /\ NoContainers
    /\ NoDrawing
    /\ NoService

NextFom == CompareFom

SpecFom == InitFom /\ [][NextFom]_vars

-----------------------------------------------------------------------------
(* The Clifford pass alone: ToNearestClifford on every circuit *)

InitPass ==
    /\ DebuggerInit("debugger", "fake_a", NoNoise)
    /\ pc = "pass"
    /\ NoCall
    /\ dag \in Circuits
    /\ passRet = NoPass
    /\ NoContainers
    /\ NoDrawing
    /\ NoService

\* PassManager([ToNearestClifford()]).run(circuit)
RunPass ==
    /\ pc = "pass"
    /\ passRet' = ToNearestCliffordRun(dag)
    /\ pc' = "pass_done"
    /\ UNCHANGED <<debuggerVars, derivations, callArgs, checks, r1, r2, sims, fomRet,
                   cliffRet, err, dag, noiseVars, drawVars, serviceVars>>

NextPass == RunPass

SpecPass == InitPass /\ [][NextPass]_vars

-----------------------------------------------------------------------------
(* Properties *)

IsTag(result) == result.isStr /\ result.str \in {"ideal_sim", "noisy_sim"}

\* The sources of the call in progress that are simulation tags, in order.
TagSources == SelectSeq(<<result1, result2>>, IsTag)

\* C1: on aligned result sets the ratio figure of merit never raises and
\* returns, for each query and each position of its array, a defined value:
\* 0 where the second (ideal) value is 0, and otherwise the quotient of the
\* first value by the second.
C1_RatioIsQuotientOrZero ==
    (Aligned(r1, r2) /\ pc # "cmp_fom") =>
        /\ pc = "returned"
        /\ Len(fomRet) = Len(r1)
        /\ \A i \in 1..Len(r1) :
              /\ Len(fomRet[i]) = Len(r1[i])
              /\ \A j \in 1..Len(r1[i]) :
                    /\ fomRet[i][j][2] > 0
                    /\ IF r2[i][j] = 0
                       THEN fomRet[i][j] = Zero
                       ELSE /\ fomRet[i][j][1] * r2[i][j] = r1[i][j] * fomRet[i][j][2]
                            /\ GCD(Abs(fomRet[i][j][1]), fomRet[i][j][2]) = 1

\* Two queries, two positions each; a zero and a non-zero ideal value, the
\* zero one under a non-zero noisy value.
C1_Witness ==
    /\ pc = "returned"
    /\ Len(r1) = 2
    /\ Len(r1[1]) = 2
    /\ r2[1][1] = 0 /\ r1[1][1] # 0
    /\ r2[1][2] # 0 /\ r1[1][2] # 0
    /\ r2[2][1] # 0

\* C2 as stated: compare returns exactly one entry per query, whatever the
\* two sources are.
C2_OneEntryPerQuery ==
    (op = "compare" /\ pc = "returned") => Len(fomRet) = Len(pubs)

\* The result set of source k has one entry per query: a simulation's always
\* has, a supplied one when the caller made it so.
HasOneEntryPerQuery(result) == result.isStr \/ Len(result.res) = Len(pubs)

\* C2, amended: compare returns as many entries as the shorter of the two
\* result sets has, which is one per query when every supplied result set
\* has one entry per query, and entry i is the ratio of entry i of the first
\* result set to entry i of the second.
C2_EntriesOfShorterSet ==
    (op = "compare" /\ pc = "returned") =>
        /\ result1.isStr => Len(r1) = Len(pubs)
        /\ result2.isStr => Len(r2) = Len(pubs)
        /\ ~result1.isStr => r1 = result1.res
        /\ ~result2.isStr => r2 = result2.res
        /\ Len(fomRet) = Min(Len(r1), Len(r2))
        /\ (HasOneEntryPerQuery(result1) /\ HasOneEntryPerQuery(result2))
              => Len(fomRet) = Len(pubs)
        /\ \A i \in 1..Len(fomRet) : fomRet[i] = Divide(r1[i], r2[i])

\* Two queries, a simulation against a supplied result set of two entries
\* that differ, and the two ratios differ.
C2_Witness ==
    /\ op = "compare"
    /\ pc = "returned"
    /\ Len(pubs) = 2
    /\ result1 = Str("noisy_sim")
    /\ ~result2.isStr
    /\ Len(fomRet) = 2
    /\ r1[1] = r1[2]
    /\ fomRet[1] # fomRet[2]

PassesAllChecks(pub) ==
    /\ ValidEstimatorPub(pub)
    /\ IsISA(pub.circuit, backend)
    /\ ConvertISAToCliffordRun(pub.circuit).ok
    /\ ConvertISAToCliffordRun(pub.circuit).dag = pub.circuit

\* C3: in compare no simulation runs unless every query passed the PUB
\* validation, the ISA validation and the Clifford check; with a query that
\* fails one of them compare goes no further than the validation, runs no
\* simulation and ends by raising.
C3_ValidationBeforeSimulation ==
    op = "compare" =>
        /\ sims # <<>> => \A i \in 1..Len(pubs) : PassesAllChecks(pubs[i])
        /\ (\E i \in 1..Len(pubs) : ~PassesAllChecks(pubs[i])) =>
              /\ sims = <<>>
              /\ pc \in {"cmp_sources", "cmp_validate", "raised"}
              /\ "clifford" \notin checks

\* Two simulations have run, on two queries.
C3_Witness ==
    /\ op = "compare"
    /\ Len(pubs) = 2
    /\ Len(sims) = 2
    /\ checks = {"pubs", "isa", "clifford"}

IsBadString(result) == result.isStr /\ result.str \notin {"ideal_sim", "noisy_sim"}

C5_NoiseOnlyInNoisySimulation ==
    /\ op = "compare" =>
          /\ noise_model # NoNoise
          /\ Len(sims) <= Len(TagSources)
          /\ \A k \in 1..Len(sims) :
                /\ sims[k].options.method = "stabilizer"
                /\ sims[k].options.seed_simulator = seed_simulator
                /\ sims[k].options.default_precision = default_precision
                /\ sims[k].options.noise_model =
                      IF TagSources[k].str = "ideal_sim" THEN NoNoise ELSE noise_model
    /\ op = "run" =>
          \A k \in 1..Len(sims) :
             /\ sims[k].options.method = "stabilizer"
             /\ sims[k].options.seed_simulator = sims[1].options.seed_simulator
             /\ sims[k].options.default_precision = sims[1].options.default_precision
             /\ sims[k].options.noise_model =
                   IF k = 1 THEN NoNoise ELSE FromBackend(backend, FALSE)

\* The noisy simulation ran first, the ideal one after it, with a seed.
C5_Witness ==
    /\ op = "compare"
    /\ result1 = Str("noisy_sim")
    /\ result2 = Str("ideal_sim")
    /\ seed_simulator = "42"
    /\ default_precision = "0.1"
    /\ Len(sims) = 2

\* C6: compare runs one simulation for each source that is a simulation
\* tag, on the call's queries, and none for a supplied result set, which
\* reaches the figure of merit as it was given; a simulation that fails is
\* the last one of the call, which raises its failure and returns nothing.
C6_OneSimulationPerTag ==
    op = "compare" =>
        /\ Len(sims) <= Len(TagSources)
        /\ \A k \in 1..Len(sims) : sims[k].pubs = pubs
        /\ pc \in {"cmp_fom", "returned"} =>
              /\ Len(sims) = Len(TagSources)
              /\ \A k \in 1..Len(sims) : sims[k].ok
              /\ ~result1.isStr => r1 = result1.res
              /\ ~result2.isStr => r2 = result2.res
        /\ \A k \in 1..Len(sims) :
              ~sims[k].ok =>
                 /\ k = Len(sims)
                 /\ pc = "raised"
                 /\ err = SimulationError
                 /\ fomRet = <<>>

\* A supplied result set first, then a simulation, which failed.
C6_Witness ==
    /\ op = "compare"
    /\ ~result1.isStr
    /\ result1.res # <<>>
    /\ r1 = result1.res
    /\ result2 = Str("ideal_sim")
    /\ Len(sims) = 1
    /\ ~sims[1].ok
    /\ pc = "raised"

\* C7: the noise description is derived from the backend at most once, and
\* never when one was given at construction; thermal relaxation is excluded
\* from every derivation.
C7_NoiseDerivedOnce ==
    /\ Len(derivations) <= 1
    /\ noise_model.origin = "user" => derivations = <<>>
    /\ \A k \in 1..Len(derivations) : ~derivations[k].thermal_relaxation

\* C8: no step of a compare or to_clifford call, whether the call returns
\* or raises, changes the Debugger's backend or its noise description.
C8_DebuggerUnchanged ==
    [][cls = "debugger" => (backend' = backend /\ noise_model' = noise_model)]_vars

\* A compare on a Debugger built with a noise model ran a noisy simulation
\* and raised after it.
C8_Witness ==
    /\ cls = "debugger"
    /\ noise_model = UserNoise
    /\ op = "compare"
    /\ result1 = Str("noisy_sim")
    /\ Len(sims) = 1
    /\ sims[1].ok
    /\ pc = "raised"

C9_State ==
    op = "to_clifford" =>
        /\ sims = <<>>
        /\ pc = "returned" =>
              /\ Len(cliffRet) = Len(pubs)
              /\ \A i \in 1..Len(pubs) :
                    /\ cliffRet[i].observables = pubs[i].observables
                    /\ cliffRet[i].parameter_values = pubs[i].parameter_values
                    /\ cliffRet[i].precision = pubs[i].precision

\* C9: to_clifford runs no simulation and returns one query per input query,
\* in order, with the observables, the parameter values and the precision of
\* the input query; and no step of it changes the input queries.
C9_ToCliffordKeepsAllButCircuit ==
    /\ []C9_State
    /\ [][(op = "to_clifford" /\ op' = "to_clifford") => pubs' = pubs]_vars

\* Two different queries came back, the second with another circuit and a
\* precision.
C9_Witness ==
    /\ op = "to_clifford"
    /\ pc = "returned"
    /\ Len(pubs) = 2
    /\ pubs[1] # pubs[2]
    /\ cliffRet[1].circuit = pubs[1].circuit
    /\ cliffRet[2].circuit # pubs[2].circuit
    /\ pubs[2].precision # "None"

Unsupported(d) == {i \in 1..Len(d) : d[i].cls \notin SUPPORTED_GATES}

\* C10: on a circuit with an instruction outside the supported classes the
\* pass returns no circuit and raises a ValueError that mentions every
\* supported class and, besides them, the class of an unsupported
\* instruction of the circuit.
C10_UnsupportedInstructionRaises ==
    (pc = "pass_done" /\ Unsupported(dag) # {}) =>
        /\ ~passRet.ok
        /\ passRet.dag = <<>>
        /\ passRet.err.type = "ValueError"
        /\ SUPPORTED_GATES \subseteq passRet.err.mentions
        /\ \E i \in Unsupported(dag) :
              passRet.err.mentions \ SUPPORTED_GATES = {dag[i].cls}

\* The pass ran on a supported gate followed by an unsupported instruction.
C10_Witness ==
    /\ pc = "pass_done"
    /\ Len(dag) = 2
    /\ Unsupported(dag) = {2}
    /\ ~passRet.ok


\* A Clifford circuit: supported gates only, every RZ angle a multiple of pi/2.
IsClifford(d) ==
    \A i \in 1..Len(d) :
       /\ d[i].cls \in SUPPORTED_GATES
       /\ d[i].cls = "RZGate" => d[i].angle % QuarterTurn = 0

\* C11: on a circuit of supported gates the pass returns the circuit with
\* every RZ angle replaced by the nearest multiple of pi/2, exact ties going
\* to the even multiple, and every other gate as it was.
C11_RZRoundedToQuarterTurn ==
    (pc = "pass_done" /\ Unsupported(dag) = {}) =>
        /\ passRet.ok
        /\ Len(passRet.dag) = Len(dag)
        /\ \A i \in 1..Len(dag) :
              passRet.dag[i] =
                 IF dag[i].cls = "RZGate"
                 THEN RZ(QuarterTurn * RoundHalfEven(dag[i].angle, QuarterTurn))
                 ELSE dag[i]

\* C12: the pass returns a Clifford circuit unchanged, and whatever circuit
\* it returns is a Clifford circuit, one that the pass returns unchanged.
C12_PassIdempotent ==
    (pc = "pass_done" /\ passRet.ok) =>
        /\ IsClifford(dag) => passRet.dag = dag
        /\ IsClifford(passRet.dag)
        /\ ToNearestCliffordRun(passRet.dag).ok
        /\ ToNearestCliffordRun(passRet.dag).dag = passRet.dag

\* The queries of the call in progress that the Clifford loop refuses.
NonClifford == {i \in 1..Len(pubs) : CliffordCheck(pubs[i]) # NoError}

\* C13: when compare raises in its Clifford loop, the error names the first
\* non-Clifford query in input order and the pass that converts circuits.
C13_ErrorNamesFirstNonClifford ==
    (op = "compare" /\ pc = "raised" /\ checks = {"pubs", "isa"}) =>
        /\ NonClifford # {}
        /\ err.type = "ValueError"
        /\ "ConvertISAToClifford" \in err.mentions
        /\ ToString(FirstOf(NonClifford)) \in err.mentions

-----------------------------------------------------------------------------
(* The noise containers of utils/noise_learner_result.py *)

MaxTerms == 2

\* A Pauli on n qubits is a letter per qubit; a PauliList has a width and
\* its Paulis.  The containers only read the length and the width.
PauliPool(n) == {[q \in 1..n |-> "X"]}
Widths == {1, 2}
PauliLists ==
    UNION {{[num_qubits |-> n, paulis |-> ps] : ps \in SeqsUpTo(PauliPool(n), MaxTerms)} :
           n \in Widths}
RateLists == SeqsUpTo({1, 3}, MaxTerms)
StderrLists == {[isNone |-> TRUE, val |-> <<>>]} \cup
               {[isNone |-> FALSE, val |-> v] : v \in SeqsUpTo({1}, MaxTerms)}
QubitLists == {<<>>, <<0>>, <<1>>, <<0, 1>>, <<1, 0>>}

\* Python's truth value of an optional list: None and [] are false.
Truthy(x) == ~x.isNone /\ Len(x.val) > 0

\* LindbladErrors.__init__ with the mismatch test on rates_stderr left out.
LindbladErrorsInitNoStderrCheck(paulis, rates, rates_stderr) ==
    IF Len(heap[paulis].paulis) # Len(heap[rates])
    THEN [err |-> Error("ValueError", "paulis has length n, but rates has length m",
                        {"paulis", "rates"}),
          self |-> [constructed |-> FALSE]]
    ELSE [err |-> NoError,
          self |-> [constructed |-> TRUE, _paulis |-> paulis, _rates |-> rates,
                    _rates_stderr |-> rates_stderr]]

\* LindbladErrors.__init__: the arguments are references to objects of the caller
\* objects, and the fields keep the references (no copy is made).
LindbladErrorsInit(paulis, rates, rates_stderr) ==
    IF Len(heap[paulis].paulis) # Len(heap[rates])
    THEN [err |-> Error("ValueError", "paulis has length n, but rates has length m",
                        {"paulis", "rates"}),
          self |-> [constructed |-> FALSE]]
    ELSE IF Truthy(heap[rates_stderr]) /\ Len(heap[rates]) # Len(heap[rates_stderr].val)
    THEN [err |-> Error("ValueError",
                        "rates_stderr has length n, but rates has length m",
                        {"rates_stderr", "rates"}),
          self |-> [constructed |-> FALSE]]
    ELSE [err |-> NoError,
          self |-> [constructed |-> TRUE, _paulis |-> paulis, _rates |-> rates,
                    _rates_stderr |-> rates_stderr]]

\* The accessors of LindbladErrors return the objects the fields refer to.
LePaulis == heap[le._paulis]
LeRates == heap[le._rates]
LeRatesStderr == heap[le._rates_stderr]
LeNumQubits == LePaulis.num_qubits

\* LayerNoise.__init__ comparing only the circuit with the labels.
LayerNoiseInitIgnoresErrors(circuit, qubits, errors) ==
    IF heap[circuit] # Len(heap[qubits])
    THEN [err |-> Error("ValueError", "Mistmatching numbers of qubits.", {}),
          self |-> [constructed |-> FALSE]]
    ELSE [err |-> NoError,
          self |-> [constructed |-> TRUE, _circuit |-> circuit, _qubits |-> qubits,
                    _errors |-> errors]]

\* LayerNoise.__init__; errors is the LindbladErrors object itself.
LayerNoiseInit(circuit, qubits, errors) ==
    IF Cardinality({heap[circuit], Len(heap[qubits]), heap[errors._paulis].num_qubits}) # 1
    THEN [err |-> Error("ValueError", "Mistmatching numbers of qubits.", {}),
          self |-> [constructed |-> FALSE]]
    ELSE [err |-> NoError,
          self |-> [constructed |-> TRUE, _circuit |-> circuit, _qubits |-> qubits,
                    _errors |-> errors]]

\* The accessors of LayerNoise.
LnCircuit == heap[ln._circuit]
LnQubits == heap[ln._qubits]
LnErrors == ln._errors
LnNumQubits == Len(LnQubits)

\* The caller holds a PauliList, two lists of numbers (or None for the
\* second), a circuit (its number of qubits) and a list of qubit labels.
InitNoise ==
    /\ DebuggerInit("debugger", "fake_a", NoNoise)
    /\ pc = "new_le"
    /\ NoCall
    /\ dag = <<>>
    /\ passRet = NoPass
    /\ heap \in [paulis : PauliLists, rates : RateLists, rates_stderr : StderrLists,
                 circuit : Widths, qubits : QubitLists]
    /\ le = [constructed |-> FALSE]
    /\ ln = [constructed |-> FALSE]
    /\ nlr = [constructed |-> FALSE]
    /\ NoDrawing
    /\ NoService

unchangedByNoise == <<debuggerVars, derivations, callArgs, checks, r1, r2, sims, fomRet,
                      cliffRet, passVars, drawVars, serviceVars, nlr>>

\* LindbladErrors(paulis, rates, rates_stderr)
NewLindbladErrors ==
    /\ pc = "new_le"
    /\ LET out == LindbladErrorsInit("paulis", "rates", "rates_stderr") IN
          IF out.err = NoError
          THEN le' = out.self /\ pc' = "le_done" /\ UNCHANGED err
          ELSE err' = out.err /\ pc' = "le_raised" /\ UNCHANGED le
    /\ UNCHANGED <<unchangedByNoise, heap, ln>>

\* LayerNoise(circuit, qubits, errors) with the LindbladErrors just built
NewLayerNoise ==
    /\ pc = "le_done"
    /\ LET out == LayerNoiseInit("circuit", "qubits", le) IN
          IF out.err = NoError
          THEN ln' = out.self /\ pc' = "ln_done" /\ UNCHANGED err
          ELSE err' = out.err /\ pc' = "ln_raised" /\ UNCHANGED ln
    /\ UNCHANGED <<unchangedByNoise, heap, le>>

\* list.append(x) and list.pop() on a list of at most MaxTerms + 1 entries
Edits(l, X) == {Append(l, x) : x \in {y \in X : Len(l) <= MaxTerms}} \cup
               {SubSeq(l, 1, Len(l) - 1) : z \in {y \in {0} : Len(l) > 0}}

\* The caller changes the list it passed as rates, or the list the rates
\* accessor returned: both are the list the object refers to.
MutateRates ==
    /\ pc \in {"le_done", "ln_done", "mutated"}
    /\ \E via \in {"held", "accessor"} :
          LET cell == IF via = "held" THEN "rates" ELSE le._rates IN
             \E new \in Edits(heap[cell], {1}) :
                heap' = [heap EXCEPT ![cell] = new]
    /\ pc' = "mutated"
    /\ UNCHANGED <<unchangedByNoise, le, ln, err>>

\* The same for a rates_stderr list.
MutateRatesStderr ==
    /\ pc \in {"le_done", "ln_done", "mutated"}
    /\ \E via \in {"held", "accessor"} :
          LET cell == IF via = "held" THEN "rates_stderr" ELSE le._rates_stderr IN
             /\ ~heap[cell].isNone
             /\ \E new \in Edits(heap[cell].val, {1}) :
                   heap' = [heap EXCEPT ![cell] = [isNone |-> FALSE, val |-> new]]
    /\ pc' = "mutated"
    /\ UNCHANGED <<unchangedByNoise, le, ln, err>>

\* The same for the list of qubit labels of a LayerNoise.
MutateQubits ==
    /\ pc \in {"ln_done", "mutated"}
    /\ ln.constructed
    /\ \E via \in {"held", "accessor"} :
          LET cell == IF via = "held" THEN "qubits" ELSE ln._qubits IN
             \E new \in Edits(heap[cell], {0}) :
                heap' = [heap EXCEPT ![cell] = new]
    /\ pc' = "mutated"
    /\ UNCHANGED <<unchangedByNoise, le, ln, err>>

NextNoise ==
    \/ NewLindbladErrors
    \/ NewLayerNoise
    \/ MutateRates
    \/ MutateRatesStderr
    \/ MutateQubits

SpecNoise == InitNoise /\ [][NextNoise]_vars

\* What the caller passed to LindbladErrors.
NumGenerators == Len(heap.paulis.paulis)
NumRates == Len(heap.rates)
NumStderr == Len(heap.rates_stderr.val)

\* C14 as stated: LindbladErrors raises ValueError exactly when the number
\* of generators differs from the number of rates, and on success the
\* accessors return the generators and rates that were passed.
C14_FailsIffLengthsDiffer ==
    /\ pc = "le_raised" => err.type = "ValueError"
    /\ pc \in {"le_done", "le_raised"} =>
          ((pc = "le_raised") <=> (NumGenerators # NumRates))
    /\ pc = "le_done" =>
          le.constructed /\ LePaulis = heap.paulis /\ LeRates = heap.rates

\* C14, amended: LindbladErrors raises ValueError exactly when the number of
\* generators differs from the number of rates or a non-empty rates_stderr
\* is not as long as rates; on success the accessors return what was passed.
C14_FailsIffSomeLengthDiffers ==
    /\ pc = "le_raised" => err.type = "ValueError"
    /\ pc \in {"le_done", "le_raised"} =>
          ((pc = "le_raised") <=>
             \/ NumGenerators # NumRates
             \/ ~heap.rates_stderr.isNone /\ NumStderr > 0 /\ NumStderr # NumRates)
    /\ pc = "le_done" =>
          le.constructed /\ LePaulis = heap.paulis /\ LeRates = heap.rates

\* No generator and no rate: the object is built.
C14_Witness ==
    /\ pc = "le_done"
    /\ NumGenerators = 0
    /\ NumRates = 0
    /\ heap.rates_stderr.isNone

\* C15: when a rates_stderr other than None was passed, a built
\* LindbladErrors has as many standard errors as rates and generators, and
\* a rates_stderr of another length makes the construction raise ValueError.
C15_SuppliedStderrSameLength ==
    (pc \in {"le_done", "le_raised"} /\ ~heap.rates_stderr.isNone) =>
        /\ pc = "le_done" =>
              /\ Len(LePaulis.paulis) = Len(LeRates)
              /\ Len(LeRates) = Len(LeRatesStderr.val)
        /\ NumStderr # NumRates => pc = "le_raised" /\ err.type = "ValueError"

\* C16: LayerNoise raises ValueError exactly when the circuit's number of
\* qubits, the number of labels and the width of the generators are not all
\* equal, and on success the accessors return what was passed.
C16_FailsIffQubitCountsDiffer ==
    /\ pc = "ln_raised" => err.type = "ValueError"
    /\ pc \in {"ln_done", "ln_raised"} =>
          ((pc = "ln_raised") <=>
             ~(heap.circuit = Len(heap.qubits) /\ Len(heap.qubits) = heap.paulis.num_qubits))
    /\ pc = "ln_done" =>
          /\ ln.constructed
          /\ LnCircuit = heap.circuit
          /\ LnQubits = heap.qubits
          /\ LnErrors = le

C16_Witness ==
    /\ pc = "ln_done"
    /\ LnNumQubits = 2
    /\ Len(LePaulis.paulis) = 2

\* The invariants of the two containers.
LindbladErrorsInv ==
    /\ Len(LePaulis.paulis) = Len(LeRates)
    /\ ~LeRatesStderr.isNone => Len(LeRatesStderr.val) = Len(LeRates)
LayerNoiseInv ==
    /\ LnCircuit = Len(LnQubits)
    /\ Len(LnQubits) = heap[LnErrors._paulis].num_qubits

\* C17: a container whose invariants hold keeps them through every later
\* step of the caller.
C17_InvariantsHoldForLife ==
    [][/\ (le.constructed /\ LindbladErrorsInv) => LindbladErrorsInv'
       /\ (ln.constructed /\ LayerNoiseInv) => LayerNoiseInv']_vars

-----------------------------------------------------------------------------
(* Layer errors and restrict_num_bodies *)

\* The generators of a layer error on two qubits: a letter per qubit index.
Letters == {"I", "X", "Z"}
Generators == [{0, 1} -> Letters]
RateVals == {1, 3}
StderrVals == {1, 2}

\* The number of non-identity qubits of a generator.
Weight(p) == Cardinality({q \in DOMAIN p : p[q] # "I"})

\* A generator with its rate and the standard error of the rate; the larger
\* rate has the larger standard error.
Terms == {t \in [pauli : Generators, rate : RateVals, stderr : StderrVals] :
             t.stderr = (t.rate + 1) \div 2}

\* The error with the given terms, with or without standard errors.
ErrorOf(ts, has_stderr) ==
    [generators |-> [i \in 1..Len(ts) |-> ts[i].pauli],
     rates |-> [i \in 1..Len(ts) |-> ts[i].rate],
     rates_stderr |-> IF has_stderr
                      THEN [isNone |-> FALSE, val |-> [i \in 1..Len(ts) |-> ts[i].stderr]]
                      ELSE [isNone |-> TRUE, val |-> <<>>]]

Errors == {ErrorOf(ts, has_stderr) : ts \in SeqsUpTo(Terms, MaxTerms), has_stderr \in BOOLEAN}

\* The entries of s at the indices in keep, from index i on, in order.
RECURSIVE SelectFrom(_, _, _)
SelectFrom(s, keep, i) ==
    IF i > Len(s) THEN <<>>
    ELSE IF i \in keep THEN <<s[i]>> \o SelectFrom(s, keep, i + 1)
    ELSE SelectFrom(s, keep, i + 1)

Select(s, keep) == SelectFrom(s, keep, 1)

\* restrict_num_bodies keeping the generators of weight k with the first
\* rates of the input.
RestrictNumBodiesHeadRates(error, k) ==
    LET keep == {i \in 1..Len(error.generators) : Weight(error.generators[i]) = k} IN
    [generators |-> Select(error.generators, keep),
     rates |-> SubSeq(error.rates, 1, Cardinality(keep)),
     rates_stderr |-> IF error.rates_stderr.isNone THEN error.rates_stderr
                      ELSE [isNone |-> FALSE, val |-> Select(error.rates_stderr.val, keep)]]

\* restrict_num_bodies(k): the generators of weight k, with their rates and
\* standard errors.
RestrictNumBodies(error, k) ==
    LET keep == {i \in 1..Len(error.generators) : Weight(error.generators[i]) = k} IN
    [generators |-> Select(error.generators, keep),
     rates |-> Select(error.rates, keep),
     rates_stderr |-> IF error.rates_stderr.isNone THEN error.rates_stderr
                      ELSE [isNone |-> FALSE, val |-> Select(error.rates_stderr.val, keep)]]

InitRestrict ==
    /\ DebuggerInit("debugger", "fake_a", NoNoise)
    /\ pc = "restrict"
    /\ NoCall
    /\ dag = <<>>
    /\ passRet = NoPass
    /\ NoContainers
    /\ NoService
    /\ \E e \in Errors, k \in 0..3 :
          drawIn = [called |-> TRUE, error |-> e, num_bodies |-> k]
    /\ drawRet = [returned |-> FALSE]

unchangedByDrawing == <<debuggerVars, derivations, callArgs, checks, r1, r2, sims, fomRet,
                        cliffRet, err, passVars, noiseVars, serviceVars>>

\* error.restrict_num_bodies(num_bodies)
Restrict ==
    /\ pc = "restrict"
    /\ drawRet' = [returned |-> TRUE,
                   error |-> RestrictNumBodies(drawIn.error, drawIn.num_bodies)]
    /\ pc' = "restrict_done"
    /\ UNCHANGED <<unchangedByDrawing, drawIn>>

NextRestrict == Restrict

SpecRestrict == InitRestrict /\ [][NextRestrict]_vars

\* The terms of an error as a bag: how often each (generator, rate,
\* standard error) occurs among the indices in I.
Occurrences(e, I, g, r, se) ==
    Cardinality({i \in I : /\ e.generators[i] = g
                           /\ e.rates[i] = r
                           /\ e.rates_stderr.isNone \/ e.rates_stderr.val[i] = se})

\* C18: restrict_num_bodies(k) returns arrays of one length, and its
\* (generator, rate, standard error) triples are exactly those of the input
\* whose generator has weight k, each as often as in the input.
C18_RestrictKeepsWeightKAligned ==
    pc = "restrict_done" =>
       LET in == drawIn.error
           out == drawRet.error
           n == Len(out.generators) IN
       /\ Len(out.rates) = n
       /\ out.rates_stderr.isNone = in.rates_stderr.isNone
       /\ ~out.rates_stderr.isNone => Len(out.rates_stderr.val) = n
       /\ \A g \in Generators, r \in RateVals, se \in StderrVals :
             Occurrences(out, 1..n, g, r, se) =
                IF Weight(g) = drawIn.num_bodies
                THEN Occurrences(in, 1..Len(in.generators), g, r, se)
                ELSE 0

\* A generator of weight 2 ahead of one of weight 1 with another rate, both
\* with standard errors, restricted to weight 1.
C18_Witness ==
    /\ pc = "restrict_done"
    /\ drawIn.num_bodies = 1
    /\ Len(drawIn.error.generators) >= 2
    /\ Len(drawRet.error.generators) = 1
    /\ Weight(drawIn.error.generators[1]) = 2
    /\ drawIn.error.rates[1] # drawIn.error.rates[2]
    /\ ~drawIn.error.rates_stderr.isNone

-----------------------------------------------------------------------------
(* draw_layer_error_map *)

\* Rates are in quarters: RateOne is the rate 1.
RateOne == 4

\* An embedding of three qubits in a row; the coupling map lists one edge in
\* both directions and the other in descending direction only.
Embeddings ==
    {[coordinates |-> <<<<0, 0>>, <<0, 1>>, <<0, 2>>>>,
      coupling_map |-> {<<0, 1>>, <<1, 0>>, <<2, 1>>}]}

\* Layer errors on two of the three qubits, coupled or not, in ascending or
\* descending order of the labels, without standard errors.
LayerErrors ==
    [qubits : {<<0, 1>>, <<1, 0>>, <<1, 2>>, <<0, 2>>},
     error : {x \in Errors : x.rates_stderr.isNone}]

\* Python dicts: d[k] = v, d.get(k, default), d.values()
EmptyDict == [x \in {} |-> 0]
Put(d, k, v) == [x \in (DOMAIN d) \cup {k} |-> IF x = k THEN v ELSE d[x]]
Get(d, k, default) == IF k \in DOMAIN d THEN d[k] ELSE default
Values(d) == {d[k] : k \in DOMAIN d}

SetMax(S) == CHOOSE x \in S : \A y \in S : y <= x
SetMin(S) == CHOOSE x \in S : \A y \in S : x <= y

\* The qubit indices where a generator is not the identity.
Active(pauli) == {q \in DOMAIN pauli : pauli[q] # "I"}

\* The colours of the figure: the no-data colour, the out-of-scale colour,
\* or the hue of the colorscale at a position in (0, 1].
NoDataColor == [kind |-> "color_no_data", pos |-> Zero]
OutOfScaleColor == [kind |-> "color_out_of_scale", pos |-> Zero]

\* get_rgb_color(discreet_colorscale, val, color_no_data, color_out_of_scale)
\* for val = <<n, d>>
GetRgbColor(val) ==
    IF val[1] = 0 THEN NoDataColor
    ELSE IF val[1] > val[2] THEN OutOfScaleColor
    ELSE [kind |-> "hue", pos |-> val]

\* The loop over the 1-body generators: rates_1q[qubit][letter] = rate
RECURSIVE Bucket1q(_, _, _, _)
Bucket1q(error_1q, qubits, i, rates_1q) ==
    IF i > Len(error_1q.generators) THEN rates_1q
    ELSE LET pauli == error_1q.generators[i]
             qubit_idx == SetMin(Active(pauli))
         IN  Bucket1q(error_1q, qubits, i + 1,
                      [rates_1q EXCEPT ![qubits[qubit_idx + 1]] =
                          Put(@, pauli[qubit_idx], error_1q.rates[i])])

\* The loop over the 2-body generators: rates_2q[edge][label] = rate, where
\* edge is the labels of the two active qubits in index order and label has
\* the letter of the higher index first; an edge that is no key raises.
RECURSIVE Bucket2q(_, _, _, _)
Bucket2q(error_2q, qubits, i, rates_2q) ==
    IF i > Len(error_2q.generators) THEN [err |-> NoError, rates_2q |-> rates_2q]
    ELSE LET pauli == error_2q.generators[i]
             i0 == SetMin(Active(pauli))
             i1 == SetMax(Active(pauli))
             edge == <<qubits[i0 + 1], qubits[i1 + 1]>>
         IN  IF edge \notin DOMAIN rates_2q
             THEN [err |-> Error("KeyError", "edge", {"edge"}), rates_2q |-> rates_2q]
             ELSE Bucket2q(error_2q, qubits, i + 1,
                           [rates_2q EXCEPT ![edge] =
                               Put(@, <<pauli[i1], pauli[i0]>>, error_2q.rates[i])])

\* An import failure reported without the name of the library.
PlotlyErrorUnnamed ==
    Error("ImportError", "import failed", {})

\* The import of plotly failed.
PlotlyError ==
    Error("ModuleNotFoundError", "Failed to import 'plotly' dependencies with error", {"plotly"})

\* The call raised e: no figure.
NoFigure(e) ==
    [returned |-> TRUE, err |-> e, edges |-> <<>>, wedges |-> <<>>, marker_colors |-> <<>>]

\* draw_layer_error_map(layer_error, embedding, num_edge_segments=...,
\* highest_rate=...): the colours of the edge segments and of the wedges
\* of the figure it returns, or the exception it raises.
DrawLayerErrorMap(layer_error, embedding, num_edge_segments, highest_rate_arg) ==
    LET coordinates == embedding.coordinates
        edges == {IF e[1] <= e[2] THEN e ELSE <<e[2], e[1]>> : e \in embedding.coupling_map}
        qubits == layer_error.qubits
        error_1q == RestrictNumBodies(layer_error.error, 1)
        rates_1q == Bucket1q(error_1q, qubits, 1,
                             [q \in {qubits[i] : i \in 1..Len(qubits)} |-> EmptyDict])
        error_2q == RestrictNumBodies(layer_error.error, 2)
        bucket_2q == Bucket2q(error_2q, qubits, 1, [e \in edges |-> EmptyDict])
        rates_2q == bucket_2q.rates_2q
        \* highest_rate = 0, then max(highest_rate, rate) for each rate
        highest_rate == SetMax({0} \cup {error_1q.rates[i] : i \in 1..Len(error_1q.rates)}
                                   \cup {error_2q.rates[i] : i \in 1..Len(error_2q.rates)})
        EdgeColors(e) ==
            LET vals == Values(rates_2q[e]) IN
            IF vals # {}
            THEN LET min_val == SetMin(vals)
                     max_val == Min(SetMax(vals), RateOne)
                 IN  [i \in 1..num_edge_segments |->
                         GetRgbColor(Frac(min_val * num_edge_segments
                                             + (max_val - min_val) * (i - 1),
                                          num_edge_segments * highest_rate))]
            ELSE <<NoDataColor>>
        Wedge(qubit, pauli) ==
            GetRgbColor(Frac(Get(Get(rates_1q, qubit, EmptyDict), pauli, 0), highest_rate))
    IN  IF bucket_2q.err # NoError THEN NoFigure(bucket_2q.err)
        ELSE IF highest_rate = 0 /\ Len(coordinates) > 0
        THEN NoFigure(Error("ZeroDivisionError", "division by zero", {}))
        ELSE IF \E q \in DOMAIN rates_1q : DOMAIN rates_1q[q] = {}
        THEN NoFigure(Error("ValueError", "max() arg is an empty sequence", {}))
        ELSE [returned |-> TRUE,
              err |-> NoError,
              edges |-> [e \in edges |-> EdgeColors(e)],
              wedges |-> [qubit \in 0..(Len(coordinates) - 1) |->
                            [pauli \in {"Z", "X", "Y"} |-> Wedge(qubit, pauli)]],
              marker_colors |-> [i \in 1..Len(qubits) |->
                                    Min(SetMax(Values(rates_1q[qubits[i]])), highest_rate)]]

InitMap ==
    /\ DebuggerInit("debugger", "fake_a", NoNoise)
    /\ pc = "map"
    /\ NoCall
    /\ dag = <<>>
    /\ passRet = NoPass
    /\ NoContainers
    /\ NoService
    /\ \E l \in LayerErrors, e \in Embeddings, plotly \in BOOLEAN,
          h \in {[isNone |-> TRUE, val |-> 0], [isNone |-> FALSE, val |-> 2]} :
          /\ plotly \/ h.isNone
          /\ drawIn = [called |-> TRUE, plotly |-> plotly, layer_error |-> l,
                       embedding |-> e, num_edge_segments |-> 2, highest_rate |-> h]
    /\ drawRet = [returned |-> FALSE]

\* draw_layer_error_map(layer_error, embedding, ...)
DrawMap ==
    /\ pc = "map"
    /\ drawRet' = IF ~drawIn.plotly THEN NoFigure(PlotlyError)
                   ELSE DrawLayerErrorMap(drawIn.layer_error, drawIn.embedding,
                                          drawIn.num_edge_segments, drawIn.highest_rate)
    /\ pc' = "map_done"
    /\ UNCHANGED <<unchangedByDrawing, drawIn>>

NextMap == DrawMap

SpecMap == InitMap /\ [][NextMap]_vars

\* The layer error being drawn, read without the buckets of the drawing:
\* the generators of weight k, the label of a qubit index, the rate last
\* given for a letter on a qubit, and the rates on a pair of qubits.
OfWeight(k) ==
    {i \in 1..Len(drawIn.layer_error.error.generators) :
        Weight(drawIn.layer_error.error.generators[i]) = k}
LabelsOf(i) ==
    {drawIn.layer_error.qubits[q + 1] : q \in Active(drawIn.layer_error.error.generators[i])}
WedgeRate(qubit, pauli) ==
    LET I == {i \in OfWeight(1) :
                 /\ LabelsOf(i) = {qubit}
                 /\ \E q \in DOMAIN drawIn.layer_error.error.generators[i] :
                       drawIn.layer_error.error.generators[i][q] = pauli}
    IN  IF I = {} THEN 0 ELSE drawIn.layer_error.error.rates[SetMax(I)]
EdgeRates(e) ==
    {drawIn.layer_error.error.rates[i] : i \in {j \in OfWeight(2) : LabelsOf(j) = {e[1], e[2]}}}
FoundRates == {drawIn.layer_error.error.rates[i] : i \in OfWeight(1) \cup OfWeight(2)}

\* C19: with plotly, draw_layer_error_map returns a figure for every layer
\* error and embedding; in it the three wedges of a qubit without 1-body generator
\* and the line of an edge without 2-body generator have the no-data colour.
C19_MapCompletesWithNoData ==
    (pc = "map_done" /\ drawIn.plotly) =>
       /\ drawRet.err = NoError
       /\ \A qubit \in DOMAIN drawRet.wedges :
             (\A i \in OfWeight(1) : LabelsOf(i) # {qubit}) =>
                \A pauli \in {"Z", "X", "Y"} : drawRet.wedges[qubit][pauli] = NoDataColor
       /\ \A e \in DOMAIN drawRet.edges :
             EdgeRates(e) = {} =>
                \A i \in DOMAIN drawRet.edges[e] : drawRet.edges[e][i] = NoDataColor

\* C20: in the figure returned, every wedge has the colour of its rate over
\* the ceiling, the ceiling being highest_rate when one was passed and the
\* largest rate of the layer error otherwise: out-of-scale above the
\* ceiling, as are all segments of an edge whose rates all exceed it.
C20_ExplicitCeilingNormalises ==
    (pc = "map_done" /\ drawRet.err = NoError) =>
       LET ceiling == IF drawIn.highest_rate.isNone THEN SetMax(FoundRates)
                      ELSE drawIn.highest_rate.val
       IN  /\ \A qubit \in DOMAIN drawRet.wedges, pauli \in {"Z", "X", "Y"} :
                 drawRet.wedges[qubit][pauli] =
                    IF WedgeRate(qubit, pauli) = 0 THEN NoDataColor
                    ELSE IF WedgeRate(qubit, pauli) > ceiling THEN OutOfScaleColor
                    ELSE [kind |-> "hue", pos |-> Frac(WedgeRate(qubit, pauli), ceiling)]
           /\ \A e \in DOMAIN drawRet.edges :
                 (EdgeRates(e) # {} /\ \A r \in EdgeRates(e) : r > ceiling) =>
                    \A i \in DOMAIN drawRet.edges[e] : drawRet.edges[e][i] = OutOfScaleColor

\* C21: a 2-body generator on two coupled qubits, whatever the order of
\* their labels in the layer, does not make the drawing fail on its edge
\* key, and in the figure returned its edge (min, max) is drawn with data.
C21_TwoBodyUnderSortedEdge ==
    pc = "map_done" =>
       \A i \in OfWeight(2) :
          LET e == <<SetMin(LabelsOf(i)), SetMax(LabelsOf(i))>> IN
          (e \in drawIn.embedding.coupling_map \/ <<e[2], e[1]>> \in drawIn.embedding.coupling_map) =>
             /\ drawRet.err.type # "KeyError"
             /\ drawRet.err = NoError =>
                   /\ Len(drawRet.edges[e]) = drawIn.num_edge_segments
                   /\ \A j \in DOMAIN drawRet.edges[e] : drawRet.edges[e][j].kind = "hue"

-----------------------------------------------------------------------------
(* NoiseLearnerResult *)

\* NoiseLearnerResult.__init__(data, metadata): list(data) and
\* metadata.copy() are new objects, kept in the cells _data and _metadata;
\* None has no copy method, and an empty copy gives way to a new {}.
NoiseLearnerResultInit(data, metadata) ==
    IF heap[metadata].isNone
    THEN [err |-> Error("AttributeError", "'NoneType' object has no attribute 'copy'", {}),
          self |-> [constructed |-> FALSE],
          heap |-> heap]
    ELSE [err |-> NoError,
          self |-> [constructed |-> TRUE, _data |-> "_data", _metadata |-> "_metadata"],
          heap |-> [heap EXCEPT !._data = heap[data],
                                !._metadata = IF DOMAIN heap[metadata].val # {}
                                              THEN heap[metadata].val ELSE EmptyDict]]

\* The accessors data and metadata; __len__, __getitem__ and __iter__ read
\* data.
NlrData == heap[nlr._data]
NlrMetadata == heap[nlr._metadata]

\* The caller holds a list of layers and a metadata dictionary or None.
InitResult ==
    /\ DebuggerInit("debugger", "fake_a", NoNoise)
    /\ pc = "new_nlr"
    /\ NoCall
    /\ dag = <<>>
    /\ passRet = NoPass
    /\ \E d \in SeqsUpTo({"L0", "L1"}, MaxTerms),
          m \in {[isNone |-> TRUE, val |-> EmptyDict], [isNone |-> FALSE, val |-> EmptyDict],
                 [isNone |-> FALSE, val |-> Put(EmptyDict, "shots", 1)]} :
          heap = [data |-> d, metadata |-> m, _data |-> <<>>, _metadata |-> EmptyDict]
    /\ le = [constructed |-> FALSE]
    /\ ln = [constructed |-> FALSE]
    /\ nlr = [constructed |-> FALSE]
    /\ NoDrawing
    /\ NoService

unchangedByResult == <<debuggerVars, derivations, callArgs, checks, r1, r2, sims, fomRet,
                       cliffRet, passVars, drawVars, serviceVars, le, ln>>

\* NoiseLearnerResult(data, metadata)
NewNoiseLearnerResult ==
    /\ pc = "new_nlr"
    /\ LET out == NoiseLearnerResultInit("data", "metadata") IN
          IF out.err = NoError
          THEN nlr' = out.self /\ heap' = out.heap /\ pc' = "nlr_done" /\ UNCHANGED err
          ELSE err' = out.err /\ pc' = "nlr_raised" /\ UNCHANGED <<nlr, heap>>
    /\ UNCHANGED unchangedByResult

\* The caller appends to or pops from the list it passed as data, or the
\* list the data accessor returned.
MutateData ==
    /\ pc \in {"nlr_done", "nlr_mutated"}
    /\ \E via \in {"held", "accessor"} :
          LET cell == IF via = "held" THEN "data" ELSE nlr._data IN
             \E new \in Edits(heap[cell], {"L2"}) :
                heap' = [heap EXCEPT ![cell] = new]
    /\ pc' = "nlr_mutated"
    /\ UNCHANGED <<unchangedByResult, nlr, err>>

\* The caller sets a key of the dictionary it passed as metadata, or of the
\* dictionary the metadata accessor returned.
MutateMetadata ==
    /\ pc \in {"nlr_done", "nlr_mutated"}
    /\ \E via \in {"held", "accessor"}, v \in {1, 2} :
          IF via = "held"
          THEN heap' = [heap EXCEPT !.metadata.val = Put(@, "shots", v)]
          ELSE heap' = [heap EXCEPT ![nlr._metadata] = Put(@, "shots", v)]
    /\ pc' = "nlr_mutated"
    /\ UNCHANGED <<unchangedByResult, nlr, err>>

NextResult ==
    \/ NewNoiseLearnerResult
    \/ MutateData
    \/ MutateMetadata

SpecResult == InitResult /\ [][NextResult]_vars

\* C26: a NoiseLearnerResult just built has the layers and the metadata that
\* were passed, and no later step of the caller changes what its accessors,
\* its length, its indexing and its iteration give.
C26_ResultNeverChanges ==
    /\ [](pc = "nlr_done" => NlrData = heap.data /\ NlrMetadata = heap.metadata.val)
    /\ [][nlr.constructed => (NlrData' = NlrData /\ NlrMetadata' = NlrMetadata)]_vars

\* C27: with metadata None the construction succeeds and the metadata of the
\* result is the empty dictionary.
C27_NoneMetadataGivesEmpty ==
    (pc \in {"nlr_done", "nlr_raised"} /\ heap.metadata.isNone) =>
        /\ pc = "nlr_done"
        /\ DOMAIN NlrMetadata = {}

-----------------------------------------------------------------------------
(* draw_layer_errors_swarm *)

MaxRates == 3

\* `if len(colors) != n: raise ValueError(f"Expected {n} colors, found {len(colors)}.")`
LengthError(what, found, expected) ==
    IF found # expected
    THEN Error("ValueError", "Expected n items, found m",
               {what, ToString(expected), ToString(found)})
    ELSE NoError

\* Whether the loop that populates the bins keeps a rate: a generator in
\* connected is kept, another one unless `(min_rate and rate < min_rate) or
\* (max_rate and rate > max_rate)`.  None and 0 are false; None has val 0.
Retained(gen, rate, connected, min_rate, max_rate) ==
    \/ gen \in connected
    \/ ~(\/ min_rate.val # 0 /\ rate < min_rate.val
         \/ max_rate.val # 0 /\ rate > max_rate.val)

\* draw_layer_errors_swarm(layer_errors, ...), with a the arguments: for
\* each layer the markers (generator, rate, bin, x offset from the layer's
\* position) by index of the rate, and for each connected generator its
\* points; or the exception raised.  The quotients are exact; a bin size
\* of zero makes the floor division fail (ZeroDivisionError on floats).
DrawLayerErrorsSwarm(a) ==
    LET n == Len(a.layer_errors)
        failed(e) == [returned |-> TRUE, err |-> e, traces |-> <<>>, connected |-> <<>>]
        colors == LengthError("colors", IF Truthy(a.colors) THEN Len(a.colors.val) ELSE n, n)
        opacities == LengthError("opacities",
                                 IF a.opacities.isFloat THEN n ELSE Len(a.opacities.val), n)
        names == LengthError("names", IF Truthy(a.names) THEN Len(a.names.val) ELSE n, n)
        connected == IF Truthy(a.connected)
                     THEN {a.connected.val[i] : i \in 1..Len(a.connected.val)} ELSE {}
        num_bins == IF a.num_bins.val # 0 THEN a.num_bins.val ELSE 10
        error(l) == IF a.num_bodies.val # 0
                    THEN RestrictNumBodies(a.layer_errors[l].error, a.num_bodies.val)
                    ELSE a.layer_errors[l].error
        rates(l) == error(l).rates
        smallest_rate(l) == SetMin({rates(l)[i] : i \in 1..Len(rates(l))})
        highest_rate(l) == SetMax({rates(l)[i] : i \in 1..Len(rates(l))})
        kept(l) == {i \in 1..Len(rates(l)) :
                       Retained(error(l).generators[i], rates(l)[i], connected,
                                a.min_rate, a.max_rate)}
        \* int((rate - smallest_rate) // bin_size), bin_size = (highest - smallest) / num_bins
        bin(l, i) == ((rates(l)[i] - smallest_rate(l)) * num_bins)
                        \div (highest_rate(l) - smallest_rate(l))
        same(l, i) == {j \in kept(l) : bin(l, j) = bin(l, i)}
        marker(l, i) ==
            [gen |-> error(l).generators[i],
             rate |-> rates(l)[i],
             bin |-> bin(l, i),
             \* (idx - len(values) // 2) / len(rates)
             x |-> Frac(Cardinality({j \in same(l, i) : j < i})
                           - (Cardinality(same(l, i)) \div 2),
                        Len(rates(l)))]
        layer_err(l) ==
            IF Len(rates(l)) = 0
            THEN Error("ValueError", "min() arg is an empty sequence", {})
            ELSE IF kept(l) # {} /\ highest_rate(l) = smallest_rate(l)
            THEN Error("ZeroDivisionError", "float floor division by zero", {})
            ELSE NoError
        bad == {l \in 1..n : layer_err(l) # NoError}
    IN  IF ~a.plotly THEN failed(PlotlyError)
        ELSE IF colors # NoError THEN failed(colors)
        ELSE IF opacities # NoError THEN failed(opacities)
        ELSE IF names # NoError THEN failed(names)
        ELSE IF bad # {} THEN failed(layer_err(SetMin(bad)))
        ELSE [returned |-> TRUE,
              err |-> NoError,
              traces |-> [l \in 1..n |-> [i \in kept(l) |-> marker(l, i)]],
              connected |-> [gen \in connected |->
                               UNION {{[layer |-> l, i |-> i, x |-> marker(l, i).x,
                                        y |-> rates(l)[i]] :
                                          i \in {j \in kept(l) : error(l).generators[j] = gen}} :
                                      l \in 1..n}]]

InitSwarm ==
    /\ DebuggerInit("debugger", "fake_a", NoNoise)
    /\ pc = "swarm"
    /\ NoCall
    /\ dag = <<>>
    /\ passRet = NoPass
    /\ NoContainers
    /\ NoService
    /\ LET None == [isNone |-> TRUE, val |-> 0]
           NoList == [isNone |-> TRUE, val |-> <<>>]
           List(v) == [isNone |-> FALSE, val |-> v]
           IX == [q \in {0, 1} |-> IF q = 0 THEN "X" ELSE "I"]
           XX == [q \in {0, 1} |-> "X"]
           terms == {t \in Terms : t.pauli \in {IX, XX}}
           layer(ts) == [qubits |-> <<0, 1>>, error |-> ErrorOf(ts, FALSE)]
           second == layer(<<[pauli |-> XX, rate |-> 1, stderr |-> 1],
                             [pauli |-> IX, rate |-> 3, stderr |-> 2]>>)
           lists == [colors : {NoList, List(<<>>), List(<<"red">>)},
                     opacities : {[isFloat |-> TRUE, val |-> <<>>],
                                  [isFloat |-> FALSE, val |-> <<>>],
                                  [isFloat |-> FALSE, val |-> <<1>>]},
                     names : {NoList, List(<<>>), List(<<"a", "b">>)}]
           defaults == [colors |-> NoList, opacities |-> [isFloat |-> TRUE, val |-> <<>>],
                        names |-> NoList]
       IN  \E ts \in SeqsUpTo(terms, MaxRates), more \in BOOLEAN, plotly \in BOOLEAN,
              num_bodies \in {None, [isNone |-> FALSE, val |-> 1]},
              max_rate \in {None, [isNone |-> FALSE, val |-> 2]},
              min_rate \in {None, [isNone |-> FALSE, val |-> 2]},
              connected \in {NoList, List(<<XX>>)},
              num_bins \in {None, [isNone |-> FALSE, val |-> 2]},
              ls \in lists :
              /\ max_rate = None \/ min_rate = None
              /\ \/ plotly /\ ls = defaults
                 \/ /\ num_bodies = None /\ max_rate = None /\ min_rate = None
                    /\ connected = NoList /\ num_bins = None
                    /\ \/ ls.colors = NoList /\ ls.opacities.isFloat
                       \/ ls.colors = NoList /\ ls.names = NoList
                       \/ ls.opacities.isFloat /\ ls.names = NoList
              /\ drawIn = [called |-> TRUE, plotly |-> plotly,
                           layer_errors |-> IF more THEN <<layer(ts), second>>
                                            ELSE <<layer(ts)>>,
                           num_bodies |-> num_bodies, max_rate |-> max_rate,
                           min_rate |-> min_rate, connected |-> connected,
                           colors |-> ls.colors, opacities |-> ls.opacities,
                           names |-> ls.names, num_bins |-> num_bins]
    /\ drawRet = [returned |-> FALSE]

\* draw_layer_errors_swarm(layer_errors, ...)
DrawSwarm ==
    /\ pc = "swarm"
    /\ drawRet' = DrawLayerErrorsSwarm(drawIn)
    /\ pc' = "swarm_done"
    /\ UNCHANGED <<unchangedByDrawing, drawIn>>

\* The error of layer l of the swarm call after `restrict_num_bodies`, read
\* from the arguments.
SwarmError(l) ==
    IF drawIn.num_bodies.val # 0
    THEN RestrictNumBodies(drawIn.layer_errors[l].error, drawIn.num_bodies.val)
    ELSE drawIn.layer_errors[l].error

\* C22: when every layer has at least one rate (and plotly and the lists
\* of colors, opacities and names are in order), the swarm plot is drawn
\* and every marker lies in one of the num_bins bins (10 when not given),
\* numbered 0 .. num_bins - 1, that span [smallest rate, highest rate];
\* this includes rate lists with equal rates or a single rate.
C22_EveryRateInOneOfNumBins ==
    (/\ pc = "swarm_done"
     /\ drawRet.err.type \notin {"ModuleNotFoundError"}
     /\ "Expected n items, found m" # drawRet.err.msg
     /\ \A l \in DOMAIN drawIn.layer_errors : Len(SwarmError(l).rates) >= 1)
    => /\ drawRet.err = NoError
       /\ \A l \in DOMAIN drawRet.traces : \A i \in DOMAIN drawRet.traces[l] :
             drawRet.traces[l][i].bin \in
                0..((IF drawIn.num_bins.val # 0 THEN drawIn.num_bins.val ELSE 10) - 1)

\* C23: the x offsets of the markers of one bin of one layer are symmetric
\* around zero: each offset occurs as often as its negation.
C23_OffsetsSymmetric ==
    (pc = "swarm_done" /\ drawRet.err = NoError) =>
       \A l \in DOMAIN drawRet.traces : \A i \in DOMAIN drawRet.traces[l] :
          LET t == drawRet.traces[l]
              in_bin == {j \in DOMAIN t : t[j].bin = t[i].bin}
              x == t[i].x
          IN  Cardinality({j \in in_bin : t[j].x = x})
                 = Cardinality({j \in in_bin : t[j].x = <<-x[1], x[2]>>})

\* Rate r lies outside the limits given to the swarm call.
OutsideLimits(r) ==
    \/ ~drawIn.max_rate.isNone /\ r > drawIn.max_rate.val
    \/ ~drawIn.min_rate.isNone /\ r < drawIn.min_rate.val

\* C28: with max_rate or min_rate given, no marker and no
\* point of a connecting line has a rate outside the limits, and every
\* other rate of the restricted layer error has its marker.
C28_NothingOutsideLimits ==
    (/\ pc = "swarm_done"
     /\ drawRet.err = NoError
     /\ ~drawIn.max_rate.isNone \/ ~drawIn.min_rate.isNone)
    => /\ \A l \in DOMAIN drawRet.traces : \A i \in 1..Len(SwarmError(l).rates) :
             i \in DOMAIN drawRet.traces[l] <=> ~OutsideLimits(SwarmError(l).rates[i])
       /\ \A g \in DOMAIN drawRet.connected : \A pt \in drawRet.connected[g] :
             ~OutsideLimits(pt.y)

-----------------------------------------------------------------------------
(* draw_layer_error_1q_bar_plot and draw_layer_error_2q_bar_plot *)

\* draw_layer_error_1q_bar_plot(layer_error, qubits, generators, colors,
\* grouping), with a the arguments: one trace for each qubit, with the
\* labels of the bars (the letter of the generator, and the qubit when
\* grouping by qubit), their rates and the colour; or the exception raised.
\* The generators shown for the qubit at position i of the list are those
\* that act on qubit index i of the layer error.
DrawLayerError1qBarPlot(a) ==
    LET failed(e) == [returned |-> TRUE, err |-> e, traces |-> <<>>]
        num_qubits == IF Truthy(a.qubits) THEN Len(a.qubits.val)
                      ELSE Len(a.layer_error.qubits)
        colors == LengthError("colors",
                              IF Truthy(a.colors) THEN Len(a.colors.val) ELSE num_qubits,
                              num_qubits)
        one_body_err == RestrictNumBodies(a.layer_error.error, 1)
        qubits == IF Truthy(a.qubits) THEN a.qubits.val ELSE a.layer_error.qubits
        mask(i) == {g \in 1..Len(one_body_err.generators) :
                       one_body_err.generators[g][i - 1] # "I"}
        shown(i) == IF Truthy(a.generators)
                    THEN {g \in mask(i) :
                             \E k \in 1..Len(a.generators.val) :
                                a.generators.val[k] = <<one_body_err.generators[g][i - 1]>>}
                    ELSE mask(i)
        bar(i, g) == [gen |-> <<one_body_err.generators[g][i - 1]>>,
                      suffix |-> IF a.grouping = "qubit" THEN <<qubits[i]>> ELSE <<>>]
    IN  IF ~a.plotly THEN failed(PlotlyError)
        ELSE IF a.grouping \notin {"qubit", "generator"}
        THEN failed(Error("ValueError", "Grouping not supported, use one of", {a.grouping}))
        ELSE IF colors # NoError THEN failed(colors)
        ELSE IF Len(qubits) > Len(a.layer_error.qubits)
        THEN failed(Error("IndexError", "index is out of bounds for axis 1", {}))
        ELSE [returned |-> TRUE,
              err |-> NoError,
              traces |-> [i \in 1..Len(qubits) |->
                            [name |-> qubits[i],
                             x |-> Select([g \in 1..Len(one_body_err.generators) |-> bar(i, g)],
                                          shown(i)),
                             y |-> Select(one_body_err.rates, shown(i)),
                             marker_color |-> IF Truthy(a.colors) THEN a.colors.val[i]
                                              ELSE "None"]]]

\* draw_layer_error_2q_bar_plot(layer_error, edges, generators, colors,
\* grouping), with a the arguments: one trace for each edge, the given
\* edges sorted, or else the sorted set of the pairs of labels that a
\* 2-body generator acts on.
DrawLayerError2qBarPlot(a) ==
    LET failed(e) == [returned |-> TRUE, err |-> e, traces |-> <<>>]
        qubits == a.layer_error.qubits
        two_body_err == RestrictNumBodies(a.layer_error.error, 2)
        gens == two_body_err.generators
        Sorted(e) == <<SetMin({e[1], e[2]}), SetMax({e[1], e[2]})>>
        \* tuple(qubits[idx] for idx, p in enumerate(g) if p != "I"); the
        \* layer errors drawn have two qubits, hence at most one such pair
        found == {LET act == {idx \in DOMAIN gens[g] : gens[g][idx] # "I"} IN
                  <<qubits[SetMin(act) + 1], qubits[SetMax(act) + 1]>> : g \in 1..Len(gens)}
        edges == IF Truthy(a.edges)
                 THEN [k \in 1..Len(a.edges.val) |-> Sorted(a.edges.val[k])]
                 ELSE [k \in 1..Cardinality(found) |-> CHOOSE e \in found : TRUE]
        colors == LengthError("colors",
                              IF Truthy(a.colors) THEN Len(a.colors.val) ELSE Len(edges),
                              Len(edges))
        index(q) == CHOOSE i \in 1..Len(qubits) : qubits[i] = q
        missing == {k \in 1..Len(edges) :
                       \E j \in 1..2 : \A i \in 1..Len(qubits) : qubits[i] # edges[k][j]}
        mask(k) == {g \in 1..Len(gens) :
                       /\ gens[g][index(edges[k][1]) - 1] # "I"
                       /\ gens[g][index(edges[k][2]) - 1] # "I"}
        label(g) == <<gens[g][1], gens[g][0]>>
        shown(k) == IF Truthy(a.generators)
                    THEN {g \in mask(k) :
                             \E j \in 1..Len(a.generators.val) : a.generators.val[j] = label(g)}
                    ELSE mask(k)
        bar(k, g) == [gen |-> label(g),
                      suffix |-> IF a.grouping = "edge" THEN edges[k] ELSE <<>>]
    IN  IF ~a.plotly THEN failed(PlotlyError)
        ELSE IF a.grouping \notin {"edge", "generator"}
        THEN failed(Error("ValueError", "Grouping not supported, use one of", {a.grouping}))
        ELSE IF colors # NoError THEN failed(colors)
        ELSE IF missing # {}
        THEN failed(Error("ValueError", "x is not in list", {}))
        ELSE [returned |-> TRUE,
              err |-> NoError,
              traces |-> [k \in 1..Len(edges) |->
                            [name |-> edges[k],
                             x |-> Select([g \in 1..Len(gens) |-> bar(k, g)], shown(k)),
                             y |-> Select(two_body_err.rates, shown(k)),
                             marker_color |-> IF Truthy(a.colors) THEN a.colors.val[k]
                                              ELSE "None"]]]

InitBar ==
    /\ DebuggerInit("debugger", "fake_a", NoNoise)
    /\ pc \in {"bar1q", "bar2q"}
    /\ NoCall
    /\ dag = <<>>
    /\ passRet = NoPass
    /\ NoContainers
    /\ NoService
    /\ LET NoList == [isNone |-> TRUE, val |-> <<>>]
           List(v) == [isNone |-> FALSE, val |-> v]
           P(a, b) == [q \in {0, 1} |-> IF q = 0 THEN a ELSE b]
           terms == {[pauli |-> P("X", "I"), rate |-> 1, stderr |-> 1],
                     [pauli |-> P("I", "X"), rate |-> 3, stderr |-> 2],
                     [pauli |-> P("I", "Z"), rate |-> 1, stderr |-> 1],
                     [pauli |-> P("X", "Z"), rate |-> 3, stderr |-> 2]}
           which == IF pc = "bar1q"
                    THEN {NoList, List(<<0>>), List(<<1>>), List(<<0, 1>>), List(<<1, 0>>)}
                    ELSE {NoList, List(<<>>), List(<<<<1, 0>>>>), List(<<<<0, 1>>, <<0, 1>>>>)}
           few == IF pc = "bar1q" THEN {NoList, List(<<1>>)}
                  ELSE {NoList, List(<<<<1, 0>>>>)}
           only == IF pc = "bar1q" THEN {NoList, List(<<<<"X">>>>)}
                   ELSE {NoList, List(<<<<"X", "X">>>>), List(<<<<"Z", "X">>>>)}
       IN  \E ts \in SeqsUpTo(terms, MaxTerms), layer_qubits \in {<<0, 1>>, <<1, 0>>},
              plotly \in BOOLEAN, sel \in which, generators \in only,
              colors \in {NoList, List(<<>>), List(<<"red">>), List(<<"red", "blue">>)},
              grouping \in {"qubit", "edge", "generator"} :
              /\ \/ plotly /\ colors = NoList /\ grouping # "generator"
                 \/ generators = NoList /\ sel \in few
              /\ drawIn = [called |-> TRUE, plotly |-> plotly,
                           layer_error |-> [qubits |-> layer_qubits,
                                            error |-> ErrorOf(ts, FALSE)],
                           generators |-> generators,
                           colors |-> colors, grouping |-> grouping]
                             @@ (IF pc = "bar1q" THEN [qubits |-> sel] ELSE [edges |-> sel])
    /\ drawRet = [returned |-> FALSE]

\* draw_layer_error_1q_bar_plot(layer_error, qubits, generators, colors, grouping)
DrawBar1q ==
    /\ pc = "bar1q"
    /\ drawRet' = DrawLayerError1qBarPlot(drawIn)
    /\ pc' = "bar1q_done"
    /\ UNCHANGED <<unchangedByDrawing, drawIn>>

\* draw_layer_error_2q_bar_plot(layer_error, edges, generators, colors, grouping)
DrawBar2q ==
    /\ pc = "bar2q"
    /\ drawRet' = DrawLayerError2qBarPlot(drawIn)
    /\ pc' = "bar2q_done"
    /\ UNCHANGED <<unchangedByDrawing, drawIn>>

\* C29: with a list of qubits, the trace of each listed label shows the
\* 1-body generators of the layer error that act on the qubit of that
\* label, in their order and with their rates.
C29_BarsOfListedQubit ==
    (/\ pc = "bar1q_done"
     /\ drawRet.err = NoError
     /\ Truthy(drawIn.qubits)
     /\ drawIn.generators.isNone)
    => \A k \in 1..Len(drawIn.qubits.val) :
          LET labels == drawIn.layer_error.qubits
              j == CHOOSE i \in 1..Len(labels) : labels[i] = drawIn.qubits.val[k]
              one == RestrictNumBodies(drawIn.layer_error.error, 1)
              act == {g \in 1..Len(one.generators) : one.generators[g][j - 1] # "I"}
              t == drawRet.traces[k]
          IN  /\ t.name = drawIn.qubits.val[k]
              /\ [n \in 1..Len(t.x) |-> <<t.x[n].gen, t.y[n]>>]
                    = Select([g \in 1..Len(one.generators) |->
                                <<<<one.generators[g][j - 1]>>, one.rates[g]>>], act)

-----------------------------------------------------------------------------
(* The four drawing functions together *)

InitPlots == InitMap \/ InitBar \/ InitSwarm

NextPlots == DrawMap \/ DrawBar1q \/ DrawBar2q \/ DrawSwarm

SpecPlots == InitPlots /\ [][NextPlots]_vars

Drawn == {"map_done", "bar1q_done", "bar2q_done", "swarm_done"}

\* C24: without plotly each of the four drawing functions raises
\* ModuleNotFoundError naming plotly and nothing else, whatever the other
\* arguments are.
C24_PlotlyCheckedFirst ==
    (pc \in Drawn /\ ~drawIn.plotly) =>
       /\ drawRet.err.type = "ModuleNotFoundError"
       /\ "plotly" \in drawRet.err.mentions
       /\ pc = "map_done" => drawRet.edges = <<>> /\ drawRet.wedges = <<>>
       /\ pc # "map_done" => drawRet.traces = <<>>

\* A bar plot was asked for without plotly and with a grouping that is
\* not allowed.
C24_Witness ==
    /\ pc = "bar2q_done"
    /\ ~drawIn.plotly
    /\ drawIn.grouping = "qubit"
    /\ drawRet.err.type = "ModuleNotFoundError"

\* The number of qubits, edges or layers plotted by the call.
Plotted ==
    CASE pc = "bar1q_done" -> IF Truthy(drawIn.qubits) THEN Len(drawIn.qubits.val)
                              ELSE Len(drawIn.layer_error.qubits)
      [] pc = "bar2q_done" -> IF Truthy(drawIn.edges) THEN Len(drawIn.edges.val)
                              ELSE IF OfWeight(2) # {} THEN 1 ELSE 0
      [] pc = "swarm_done" -> Len(drawIn.layer_errors)

\* The lengths of the lists of colors, names and opacities given to the
\* call that differ from the number plotted.
WrongLengths ==
    LET wrong(l) == ~l.isNone /\ Len(l.val) # Plotted IN
    (IF wrong(drawIn.colors) THEN {Len(drawIn.colors.val)} ELSE {})
       \cup (IF pc = "swarm_done" /\ wrong(drawIn.names)
             THEN {Len(drawIn.names.val)} ELSE {})
       \cup (IF pc = "swarm_done" /\ ~drawIn.opacities.isFloat
                                 /\ Len(drawIn.opacities.val) # Plotted
             THEN {Len(drawIn.opacities.val)} ELSE {})

GroupingAllowed ==
    CASE pc = "bar1q_done" -> drawIn.grouping \in {"qubit", "generator"}
      [] pc = "bar2q_done" -> drawIn.grouping \in {"edge", "generator"}
      [] pc = "swarm_done" -> TRUE

\* A ValueError that states the expected length and one of the found ones.
ReportsLength(found) ==
    /\ drawRet.err.type = "ValueError"
    /\ \E m \in found : {ToString(Plotted), ToString(m)} \subseteq drawRet.err.mentions
    /\ drawRet.traces = <<>>

\* C25: a grouping that is not allowed makes the bar plots
\* raise ValueError naming it, and a given list of colors, names or
\* opacities of the wrong length makes the bar and swarm plots raise
\* ValueError stating the expected and the found length; no figure is
\* returned.
C25_WrongLengthRaises ==
    (pc \in Drawn \ {"map_done"} /\ drawIn.plotly) =>
       /\ ~GroupingAllowed =>
             /\ drawRet.err.type = "ValueError"
             /\ drawIn.grouping \in drawRet.err.mentions
             /\ drawRet.traces = <<>>
       /\ (GroupingAllowed /\ WrongLengths # {}) => ReportsLength(WrongLengths)

-----------------------------------------------------------------------------
(* QiskitRuntimeLocalService.backends and backend *)

\* The fake backends: their name, number of qubits, and whether they
\* support dynamic circuits.
FakeBackends ==
    {[name |-> "fake_a", num_qubits |-> 1, dynamic |-> FALSE],
     [name |-> "fake_b", num_qubits |-> 5, dynamic |-> TRUE],
     [name |-> "fake_c", num_qubits |-> 5, dynamic |-> FALSE]}

\* backends(name, min_num_qubits, dynamic_circuits, filters), with a the
\* arguments and a.provided the list that FakeProviderForBackendV2()
\* .backends(name) returns: the list returned or the exception raised.
\* filter_backends keeps the backends that satisfy the predicate, if any.
backends(a) ==
    LET raised == [returned |-> TRUE,
                   err |-> Error("QiskitBackendNotFoundError",
                                 "No backend matches the criteria.", {}),
                   backends |-> <<>>]
        all == a.provided
        named == {i \in 1..Len(all) : all[i].name = a.name.val}
        by_name == IF a.name.val # "" THEN <<all[SetMin(named)]>> ELSE all
        by_qubits == IF a.min_num_qubits.val # 0
                     THEN Select(by_name, {i \in 1..Len(by_name) :
                                              by_name[i].num_qubits >= a.min_num_qubits.val})
                     ELSE by_name
        by_dynamic == IF ~a.dynamic_circuits.isNone
                      THEN Select(by_qubits, {i \in 1..Len(by_qubits) :
                                                 by_qubits[i].dynamic = a.dynamic_circuits.val})
                      ELSE by_qubits
        holds(b) == CASE a.filters = "None" -> TRUE
                      [] a.filters = "few_qubits" -> b.num_qubits < 3
                      [] a.filters = "never" -> FALSE
        filtered == Select(by_dynamic, {i \in 1..Len(by_dynamic) : holds(by_dynamic[i])})
    IN  IF a.name.val # "" /\ named = {} THEN raised
        ELSE IF Len(filtered) = 0 THEN raised
        ELSE [returned |-> TRUE, err |-> NoError, backends |-> filtered]

\* backend(name): `self.backends(name=name)[0]`
ServiceBackend(provided, name) ==
    LET found == backends([provided |-> provided, name |-> name,
                           min_num_qubits |-> [isNone |-> TRUE, val |-> 0],
                           dynamic_circuits |-> [isNone |-> TRUE, val |-> FALSE],
                           filters |-> "None"])
    IN  IF found.err # NoError THEN found ELSE [found EXCEPT !.backends = <<found.backends[1]>>]

InitService ==
    /\ DebuggerInit("debugger", "fake_a", NoNoise)
    /\ pc \in {"backends", "backend"}
    /\ NoCall
    /\ dag = <<>>
    /\ passRet = NoPass
    /\ NoContainers
    /\ NoDrawing
    /\ \E provided \in SeqsUpTo(FakeBackends, Cardinality(FakeBackends)),
          name \in {[isNone |-> TRUE, val |-> ""], [isNone |-> FALSE, val |-> ""],
                    [isNone |-> FALSE, val |-> "fake_a"], [isNone |-> FALSE, val |-> "fake_z"]},
          min_num_qubits \in {[isNone |-> TRUE, val |-> 0], [isNone |-> FALSE, val |-> 0],
                              [isNone |-> FALSE, val |-> 2], [isNone |-> FALSE, val |-> 9]},
          dynamic_circuits \in {[isNone |-> TRUE, val |-> FALSE], [isNone |-> FALSE, val |-> FALSE],
                                [isNone |-> FALSE, val |-> TRUE]},
          filters \in {"None", "few_qubits", "never"} :
          /\ \A i, j \in 1..Len(provided) : provided[i] = provided[j] => i = j
          /\ pc = "backend" => /\ min_num_qubits.isNone /\ dynamic_circuits.isNone
                               /\ filters = "None"
          /\ serviceIn = [called |-> TRUE, provided |-> provided, name |-> name,
                          min_num_qubits |-> min_num_qubits,
                          dynamic_circuits |-> dynamic_circuits, filters |-> filters]
    /\ serviceRet = [returned |-> FALSE]

unchangedByService ==
    <<debuggerVars, derivations, callArgs, checks, r1, r2, sims, fomRet, cliffRet, err,
      passVars, noiseVars, drawVars, serviceIn>>

\* service.backends(name, min_num_qubits, dynamic_circuits, filters)
CallBackends ==
    /\ pc = "backends"
    /\ serviceRet' = backends(serviceIn)
    /\ pc' = "backends_done"
    /\ UNCHANGED unchangedByService

\* service.backend(name)
CallBackend ==
    /\ pc = "backend"
    /\ serviceRet' = ServiceBackend(serviceIn.provided, serviceIn.name)
    /\ pc' = "backend_done"
    /\ UNCHANGED unchangedByService

NextService == CallBackends \/ CallBackend

SpecService == InitService /\ [][NextService]_vars

\* C30: backends returns a non-empty list of backends that satisfy every
\* filter given, or raises QiskitBackendNotFoundError when no backend
\* satisfies them all, and backend(name) returns a backend of that name.
C30_OnlyMatchingBackends ==
    LET a == serviceIn
        Matches(b) ==
            /\ ~a.name.isNone => b.name = a.name.val
            /\ ~a.min_num_qubits.isNone => b.num_qubits >= a.min_num_qubits.val
            /\ ~a.dynamic_circuits.isNone => b.dynamic = a.dynamic_circuits.val
            /\ a.filters = "few_qubits" => b.num_qubits < 3
            /\ a.filters # "never"
    IN  /\ pc = "backends_done" =>
             IF serviceRet.err = NoError
             THEN /\ Len(serviceRet.backends) > 0
                  /\ \A i \in DOMAIN serviceRet.backends : Matches(serviceRet.backends[i])
             ELSE /\ serviceRet.err.type = "QiskitBackendNotFoundError"
                  /\ \A i \in DOMAIN a.provided : ~Matches(a.provided[i])
        /\ (pc = "backend_done" /\ ~a.name.isNone /\ serviceRet.err = NoError) =>
              serviceRet.backends[1].name = a.name.val

=============================================================================
